---- MODULE Spec2Model ----
(***************************************************************************)
(* Model of the analysis run of src/src/EntitySEOChecker.js: the React     *)
(* state of the component, the operator's form handlers, and runAnalysis   *)
(* cut into the atomic segments that lie between two awaits; of its e-mail *)
(* modal with the handler of src/api/send-report.js; and of the            *)
(* diagnostics handler of src/unnamed/part_003.                            *)
(*                                                                         *)
(* Abstractions: strings are drawn from small sets; industry, keywords and *)
(* title only feed query text and are left out; the fields summary,        *)
(* errorMessage and topSources of a result are left out; debug logging     *)
(* (addLog, debugLogs) and the active tab are left out.                    *)
(* null is modelled as the string "null" for string-valued state and as    *)
(* the empty sequence for object-valued state (an object v is <<v>>).      *)
(***************************************************************************)
EXTENDS Integers, Sequences, FiniteSets, TLC

\* ------------------------------------------------------------------ bounds
MaxEngines == 2          \* the operator toggles the first MaxEngines registry entries
MaxLeaderRows == 2       \* leader rows in the form (the code allows 5)
MaxCompetitorRows == 1   \* competitor rows in the form (the code allows 3)
MaxDisturbances == 1     \* per run: abnormal gateway responses plus operator actions
                         \* taken while the run is in flight

\* ------------------------------------------------------- program constants
LeaderRowLimit == 5
CompetitorRowLimit == 3

llmOptions == <<"chatgpt", "gemini", "claude", "perplexity", "copilot">>

\* the keys of the selectedLLMs state object, in the order they are created
selectedLLMsKeys == <<"chatgpt", "gemini", "claude", "perplexity", "copilot">>

llmName(id) ==
  CASE id = "chatgpt" -> "ChatGPT"
    [] id = "gemini" -> "Google Gemini"
    [] id = "claude" -> "Claude"
    [] id = "perplexity" -> "Perplexity"
    [] OTHER -> "Microsoft Copilot"

Min(a, b) == IF a < b THEN a ELSE b

\* ------------------------------------------------------------ input values
CompanyNames == {"", "Acme"}
Domains == {"", "a.com"}
PersonNames == {"", "Ann"}
RivalNames == {"", "Rival"}

LeaderObjs == 1..(MaxLeaderRows + 1)        \* identities of leader row objects
CompetitorObjs == 1..(MaxCompetitorRows + 1)

ToggleIds == {llmOptions[i] : i \in 1..Min(MaxEngines, Len(llmOptions))}

\* --------------------------------------------------------------- sequences
RECURSIVE SelectSeqBy(_, _, _)
\* the elements of s (from position i on) that satisfy keep, in order
SelectSeqBy(s, i, keep) ==
  IF i > Len(s) THEN <<>>
  ELSE IF s[i] \in keep THEN <<s[i]>> \o SelectSeqBy(s, i + 1, keep)
  ELSE SelectSeqBy(s, i + 1, keep)

RemoveAt(s, i) == SubSeq(s, 1, i - 1) \o SubSeq(s, i + 1, Len(s))

Range(s) == {s[i] : i \in 1..Len(s)}

\* ------------------------------------------------------------------- state
VARIABLES
  formData,      \* [companyName, website, leadership, competitors]; rows are object ids
  leaderObj,     \* heap: leader row object -> [name]
  competitorObj, \* heap: competitor row object -> [name, website]
  selectedLLMs,  \* the entries [id, selected] of the object, in key order
  results,       \* <<>> (null) or <<Report>>
  loading,
  progress,      \* [current, total, message]
  error,         \* "null" or a message
  semrushData,   \* "null" or backlink data
  run,           \* locals of the runAnalysis call in flight
  inflight,      \* set of gateway requests issued and not yet answered
  trace,         \* history of the last run: progress events and requests, in order
  startBrief,    \* history: the brief and engines by value as the last run started
  outcome,       \* history: how the last run ended
  budget,        \* what is left of MaxDisturbances in the run in flight
  lastClick,     \* history: "blocked" right after a click on the disabled Run button
  byLLM,         \* the map of engine results handed to the aggregate functions
  shown,         \* what the aggregate and display functions made of byLLM
  mail,          \* the e-mail modal: [showEmailModal, emailForm, emailSending, emailStatus]
  delivery,      \* /api/send-report: the request in flight and what the handler did last
  diagnosis      \* the diagnostics endpoint: environment, position, checks, summary

vars == <<formData, leaderObj, competitorObj, selectedLLMs, results, loading,
          progress, error, semrushData, run, inflight, trace, startBrief,
          outcome, budget, lastClick, byLLM, shown, mail, delivery, diagnosis>>

\* the aggregate functions read their argument only
displayVars == <<byLLM, shown>>

\* the e-mail modal and the two endpoints that runAnalysis and the form
\* handlers neither read nor write
serviceVars == <<mail, delivery, diagnosis>>

Null == <<>>
NoProgress == [current |-> 0, total |-> 0, message |-> <<>>]

NoLeader == [name |-> ""]
NoCompetitor == [name |-> "", website |-> ""]

\* ----------------------------------------------------------------- results
\* a slip: the sentinel carries the scores of the parse fallback
SentinelScored ==
  [error |-> TRUE, entityFound |-> FALSE, confidenceScore |-> 5,
   sentimentScore |-> 5, sentiment |-> "neutral",
   recommendations |-> "Analysis failed", parseError |-> FALSE]

\* the sentinel analyzeQuery returns from its catch block
Sentinel ==
  [error |-> TRUE, entityFound |-> FALSE, confidenceScore |-> 0,
   sentimentScore |-> 0, sentiment |-> "unknown",
   recommendations |-> "Analysis failed", parseError |-> FALSE]

\* a 200 body as the provider's JSON asks for it
NormalBody ==
  [error |-> FALSE, entityFound |-> TRUE, confidenceScore |-> 8,
   sentimentScore |-> 7, sentiment |-> "positive",
   recommendations |-> "advice", parseError |-> FALSE]

\* the 200 body api/analyze.js builds when the provider's text is not JSON
FallbackBody ==
  [error |-> FALSE, entityFound |-> FALSE, confidenceScore |-> 5,
   sentimentScore |-> 5, sentiment |-> "neutral",
   recommendations |-> "Please try again or refine your search criteria",
   parseError |-> TRUE]

\* a 200 body whose provider JSON itself carries "error": true
ErrorFlagBody ==
  [error |-> TRUE, entityFound |-> FALSE, confidenceScore |-> 3,
   sentimentScore |-> 3, sentiment |-> "negative",
   recommendations |-> "advice", parseError |-> FALSE]

OkBodies == {NormalBody, FallbackBody, ErrorFlagBody}

\* what fetch('/api/analyze') can come back with
AnalyzeResponses ==
  {[reached |-> FALSE, ok |-> FALSE, readable |-> FALSE, body |-> NormalBody],
   [reached |-> TRUE, ok |-> FALSE, readable |-> TRUE, body |-> NormalBody],
   [reached |-> TRUE, ok |-> FALSE, readable |-> FALSE, body |-> NormalBody],
   [reached |-> TRUE, ok |-> TRUE, readable |-> FALSE, body |-> NormalBody]}
  \cup {[reached |-> TRUE, ok |-> TRUE, readable |-> TRUE, body |-> b] : b \in OkBodies}

NormalResponse == [reached |-> TRUE, ok |-> TRUE, readable |-> TRUE, body |-> NormalBody]

\* what fetch('/api/semrush') can come back with; data "null" is a body without data
SemrushResponses ==
  {[reached |-> FALSE, ok |-> FALSE, readable |-> FALSE, data |-> "null"],
   [reached |-> TRUE, ok |-> FALSE, readable |-> TRUE, data |-> "null"],
   [reached |-> TRUE, ok |-> TRUE, readable |-> FALSE, data |-> "null"],
   [reached |-> TRUE, ok |-> TRUE, readable |-> TRUE, data |-> "null"],
   [reached |-> TRUE, ok |-> TRUE, readable |-> TRUE, data |-> "profile"],
   [reached |-> TRUE, ok |-> TRUE, readable |-> TRUE, data |-> "errors-only"]}

NormalSemrushResponse ==
  [reached |-> TRUE, ok |-> TRUE, readable |-> TRUE, data |-> "profile"]

\* --------------------------------------------------------- gateway requests
AnalyzeRequest(query, llm, analysisType) ==
  [api |-> "/api/analyze", query |-> query, llmName |-> llmName(llm),
   analysisType |-> analysisType, domain |-> ""]

SemrushRequest(domain) ==
  [api |-> "/api/semrush", query |-> <<>>, llmName |-> "",
   analysisType |-> "all", domain |-> domain]

\* ------------------------------------------------------------ trace events
\* row is the row object a request is about (0: the company); failed tells
\* of an answer whether the gateway call failed, body is the 200 body of an
\* analysis answer that did not fail, data the data field of the 200 body of
\* a backlink answer that did not fail
ProgressEvent(p) ==
  [ev |-> "progress", current |-> p.current, total |-> p.total,
   type |-> "", llm |-> "", row |-> 0, query |-> <<>>, failed |-> FALSE, body |-> Sentinel,
   data |-> "null"]

AnalysisEvent(query, llm, analysisType, row) ==
  [ev |-> "analysis", current |-> 0, total |-> 0,
   type |-> analysisType, llm |-> llm, row |-> row, query |-> query, failed |-> FALSE,
   body |-> Sentinel, data |-> "null"]

BacklinkEvent(domain) ==
  [ev |-> "backlink", current |-> 0, total |-> 0,
   type |-> "", llm |-> "", row |-> 0, query |-> <<domain>>, failed |-> FALSE,
   body |-> Sentinel, data |-> "null"]

AnswerEvent(api, failed, body, data) ==
  [ev |-> IF api = "/api/analyze" THEN "analysisAnswer" ELSE "backlinkAnswer",
   current |-> 0, total |-> 0, type |-> "", llm |-> "", row |-> 0, query |-> <<>>,
   failed |-> failed, body |-> body, data |-> data]

ResetEvent ==
  [ev |-> "reset", current |-> 0, total |-> 0, type |-> "", llm |-> "", row |-> 0,
   query |-> <<>>, failed |-> FALSE, body |-> Sentinel, data |-> "null"]

\* ------------------------------------------------------- locals of a run
EmptyReport ==
  [companyName |-> "", website |-> "", company |-> <<>>, leadership |-> <<>>,
   competitors |-> <<>>, semrushData |-> "null", podcastOpportunities |-> <<>>]

\* row (history) is the row object an entry was built from
EmptyLeaderResults ==
  [name |-> "", byLLM |-> <<>>, pressOpportunities |-> <<>>, socialSentiment |-> <<>>,
   row |-> 0]

EmptyCompetitorResults ==
  [name |-> "", website |-> "", byLLM |-> <<>>, semrushData |-> "null", row |-> 0]

IdleRun ==
  [pc |-> "idle",
   form |-> [companyName |-> "", website |-> "", leadership |-> <<>>, competitors |-> <<>>],
   llmList |-> <<>>, totalQueries |-> 0, currentQuery |-> 0,
   allResults |-> EmptyReport,
   leaderList |-> <<>>, li |-> 0, ei |-> 0, leaderResults |-> EmptyLeaderResults,
   compList |-> <<>>, ci |-> 0, competitorResults |-> EmptyCompetitorResults]

\* obj[key] = value on a JS object kept as the sequence of its entries in
\* insertion order: an existing key keeps its place, a new key goes last
MapSet(map, key, value) ==
  IF \E i \in 1..Len(map) : map[i].llm = key
  THEN [i \in 1..Len(map) |-> IF map[i].llm = key THEN [llm |-> key, results |-> value] ELSE map[i]]
  ELSE Append(map, [llm |-> key, results |-> value])

\* the part of the component a segment of runAnalysis reads and writes
Machine ==
  [run |-> run, inflight |-> inflight, progress |-> progress, trace |-> trace,
   results |-> results, loading |-> loading, semrushData |-> semrushData,
   error |-> error, outcome |-> outcome]

\* --------------------------------------------------------------- gateways
setProgress(m, p) ==
  [m EXCEPT !.progress = p, !.trace = Append(@, ProgressEvent(p))]

\* analyzeQuery up to its await: the request leaves
analyzeQuery(m, query, llm, analysisType, row) ==
  [m EXCEPT !.inflight = @ \cup {AnalyzeRequest(query, llm, analysisType)},
            !.trace = Append(@, AnalysisEvent(query, llm, analysisType, row))]

\* analyzeQuery after its await: the value it returns for a response
analyzeQueryResult(resp) ==
  IF ~resp.reached THEN Sentinel          \* fetch rejected
  ELSE IF ~resp.ok THEN Sentinel          \* errorData read or not, an Error is thrown
  ELSE IF ~resp.readable THEN Sentinel    \* response.json() rejected
  ELSE resp.body

\* a slip: the backlink fetch is counted as a query
fetchSemrushDataCounted(m, domain) ==
  [m EXCEPT !.run.currentQuery = @ + 1,
            !.inflight = @ \cup {SemrushRequest(domain)},
            !.trace = Append(@, BacklinkEvent(domain))]

\* fetchSemrushData up to its await
fetchSemrushData(m, domain) ==
  [m EXCEPT !.inflight = @ \cup {SemrushRequest(domain)},
            !.trace = Append(@, BacklinkEvent(domain))]

\* fetchSemrushData after its await: null or the body
fetchSemrushDataResult(resp) ==
  IF ~resp.reached THEN Null
  ELSE IF ~resp.ok THEN Null
  ELSE IF ~resp.readable THEN Null
  ELSE <<[data |-> resp.data]>>

\* x?.data || null
DataOrNull(x) == IF x = Null THEN "null" ELSE x[1].data

\* ------------------------------------------------- segments of runAnalysis
\* a slip: the finally block does not reset the progress
finishRunKeepingProgress(m) ==
  [m EXCEPT !.results = <<m.run.allResults>>,
            !.loading = FALSE,
            !.trace = Append(@, ResetEvent),
            !.outcome = "completed",
            !.run = IdleRun]

\* lines 346-347 and the finally block 352-354
finishRun(m) ==
  [m EXCEPT !.results = <<m.run.allResults>>,
            !.loading = FALSE,
            !.progress = NoProgress,
            !.trace = Append(@, ResetEvent),
            !.outcome = "completed",
            !.run = IdleRun]

\* a slip: the catch block publishes what the run had gathered
abortRunPublishingPartial(m) ==
  [m EXCEPT !.error = "Analysis failed",
            !.results = <<m.run.allResults>>,
            !.loading = FALSE,
            !.progress = NoProgress,
            !.trace = Append(@, ResetEvent),
            !.outcome = "aborted",
            !.run = IdleRun]

\* the catch block 349-351 and the finally block 352-354
abortRun(m) ==
  [m EXCEPT !.error = "Analysis failed",
            !.loading = FALSE,
            !.progress = NoProgress,
            !.trace = Append(@, ResetEvent),
            !.outcome = "aborted",
            !.run = IdleRun]

\* lines 330-339: one competitor request
competitorQuery(m, ei) ==
  LET llm == m.run.llmList[ei]
      competitor == competitorObj[m.run.compList[m.run.ci]]
      m1 == [m EXCEPT !.run.currentQuery = @ + 1, !.run.ei = ei, !.run.pc = "competitor"]
      m2 == setProgress(m1, [current |-> m1.run.currentQuery, total |-> m1.run.totalQueries,
                             message |-> <<"Analyzing", competitor.name, llmName(llm)>>])
  IN analyzeQuery(m2, <<"competitor", competitor.name, competitor.website>>, llm, "competitor",
                  m.run.compList[m.run.ci])

\* lines 315-328: a competitor's iteration begins
startCompetitor(m, ci) ==
  LET competitor == competitorObj[m.run.compList[ci]]
      m1 == [m EXCEPT !.run.ci = ci,
                      !.run.competitorResults =
                         [name |-> competitor.name, website |-> competitor.website,
                          byLLM |-> <<>>, semrushData |-> "null",
                          row |-> m.run.compList[ci]]]
  IN IF competitor.website # ""
     THEN fetchSemrushData([m1 EXCEPT !.run.pc = "compSemrush"], competitor.website)
     ELSE competitorQuery(m1, 1)

\* line 315: the competitor loop is entered
enterCompetitors(m) ==
  LET named == {o \in CompetitorObjs : competitorObj[o].name # ""}
      list == SelectSeqBy(m.run.form.competitors, 1, named)
  IN IF list = <<>> THEN finishRun(m)
     ELSE startCompetitor([m EXCEPT !.run.compList = list], 1)

\* lines 301-310: one podcast request
podcastQuery(m, ei) ==
  LET llm == m.run.llmList[ei]
      m1 == [m EXCEPT !.run.currentQuery = @ + 1, !.run.ei = ei, !.run.pc = "podcast"]
      m2 == setProgress(m1, [current |-> m1.run.currentQuery, total |-> m1.run.totalQueries,
                             message |-> <<"Finding podcast opportunities", llmName(llm)>>])
  IN analyzeQuery(m2, <<"podcast", m.run.form.companyName>>, llm, "podcast", 0)

\* lines 284-293: the social request of the current leader and engine
socialQuery(m) ==
  LET llm == m.run.llmList[m.run.ei]
      leader == leaderObj[m.run.leaderList[m.run.li]]
      m1 == [m EXCEPT !.run.currentQuery = @ + 1, !.run.pc = "social"]
      m2 == setProgress(m1, [current |-> m1.run.currentQuery, total |-> m1.run.totalQueries,
                             message |-> <<"Analyzing social sentiment", leader.name>>])
  IN analyzeQuery(m2, <<"social", leader.name, m.run.form.companyName>>, llm, "social",
                  m.run.leaderList[m.run.li])

\* a slip: currentQuery is not advanced before the press request
pressQueryNotCounted(m) ==
  LET llm == m.run.llmList[m.run.ei]
      leader == leaderObj[m.run.leaderList[m.run.li]]
      m1 == [m EXCEPT !.run.pc = "press"]
      m2 == setProgress(m1, [current |-> m1.run.currentQuery, total |-> m1.run.totalQueries,
                             message |-> <<"Finding press opportunities", leader.name>>])
  IN analyzeQuery(m2, <<"press", leader.name, m.run.form.companyName>>, llm, "press",
                  m.run.leaderList[m.run.li])

\* lines 272-281: the press request of the current leader and engine
pressQuery(m) ==
  LET llm == m.run.llmList[m.run.ei]
      leader == leaderObj[m.run.leaderList[m.run.li]]
      m1 == [m EXCEPT !.run.currentQuery = @ + 1, !.run.pc = "press"]
      m2 == setProgress(m1, [current |-> m1.run.currentQuery, total |-> m1.run.totalQueries,
                             message |-> <<"Finding press opportunities", leader.name>>])
  IN analyzeQuery(m2, <<"press", leader.name, m.run.form.companyName>>, llm, "press",
                  m.run.leaderList[m.run.li])

\* lines 259-269: the reputation request of the current leader on engine ei
leadershipQuery(m, ei) ==
  LET llm == m.run.llmList[ei]
      leader == leaderObj[m.run.leaderList[m.run.li]]
      m1 == [m EXCEPT !.run.currentQuery = @ + 1, !.run.ei = ei, !.run.pc = "leadership"]
      m2 == setProgress(m1, [current |-> m1.run.currentQuery, total |-> m1.run.totalQueries,
                             message |-> <<"Analyzing reputation", leader.name, llmName(llm)>>])
  IN analyzeQuery(m2, <<"leadership", leader.name, m.run.form.companyName>>, llm, "leadership",
                  m.run.leaderList[m.run.li])

\* lines 250-257: a leader's iteration begins
startLeader(m, li) ==
  LET leader == leaderObj[m.run.leaderList[li]]
      m1 == [m EXCEPT !.run.li = li,
                      !.run.leaderResults =
                         [name |-> leader.name, byLLM |-> <<>>,
                          pressOpportunities |-> <<>>, socialSentiment |-> <<>>,
                          row |-> m.run.leaderList[li]]]
  IN leadershipQuery(m1, 1)

\* line 301: the podcast loop is entered
enterPodcast(m) == podcastQuery(m, 1)

\* line 250: the leader loop is entered
enterLeaders(m) ==
  LET named == {o \in LeaderObjs : leaderObj[o].name # ""}
      list == SelectSeqBy(m.run.form.leadership, 1, named)
  IN IF list = <<>> THEN enterPodcast(m)
     ELSE startLeader([m EXCEPT !.run.leaderList = list], 1)

\* lines 235-245: one entity request
companyQuery(m, ei) ==
  LET llm == m.run.llmList[ei]
      m1 == [m EXCEPT !.run.currentQuery = @ + 1, !.run.ei = ei, !.run.pc = "entity"]
      m2 == setProgress(m1, [current |-> m1.run.currentQuery, total |-> m1.run.totalQueries,
                             message |-> <<"Analyzing", m.run.form.companyName, llmName(llm)>>])
  IN analyzeQuery(m2, <<"entity", m.run.form.companyName, m.run.form.website>>, llm, "entity", 0)

\* ------------------------------------------ continuations after an await
\* lines 229-231, then the company loop
afterMainSemrush(m, mainSemrush) ==
  companyQuery([m EXCEPT !.run.allResults.semrushData = DataOrNull(mainSemrush),
                         !.semrushData = DataOrNull(mainSemrush)], 1)

\* a slip: the result is stored and the run then waits for something that
\* never arrives
afterEntityStalled(m, result) ==
  [m EXCEPT !.run.allResults.company = MapSet(@, m.run.llmList[m.run.ei], result),
            !.run.pc = "stalled"]

\* line 246, then the next engine or the leader loop
afterEntity(m, result) ==
  LET llm == m.run.llmList[m.run.ei]
      m1 == [m EXCEPT !.run.allResults.company = MapSet(@, llm, result)]
  IN IF m.run.ei < Len(m.run.llmList) THEN companyQuery(m1, m.run.ei + 1)
     ELSE enterLeaders(m1)

\* a slip: the social request is sent where the press request belongs
afterLeadershipThenSocial(m, result) ==
  socialQuery([m EXCEPT !.run.leaderResults.byLLM = MapSet(@, m.run.llmList[m.run.ei], result)])

\* line 270, then the press request
afterLeadership(m, result) ==
  pressQuery([m EXCEPT !.run.leaderResults.byLLM = MapSet(@, m.run.llmList[m.run.ei], result)])

\* a slip: a failed press request ends the run through the catch block
afterPressAborting(m, pressResult) ==
  IF pressResult.error THEN abortRun(m)
  ELSE socialQuery([m EXCEPT !.run.leaderResults.pressOpportunities =
                                MapSet(@, m.run.llmList[m.run.ei], pressResult)])

\* line 282, then the social request
afterPress(m, pressResult) ==
  socialQuery([m EXCEPT !.run.leaderResults.pressOpportunities =
                           MapSet(@, m.run.llmList[m.run.ei], pressResult)])

\* line 294, then the next engine, the next leader (line 297) or the podcast loop
afterSocial(m, socialResult) ==
  LET m1 == [m EXCEPT !.run.leaderResults.socialSentiment =
                         MapSet(@, m.run.llmList[m.run.ei], socialResult)]
      m2 == [m1 EXCEPT !.run.allResults.leadership = Append(@, m1.run.leaderResults)]
  IN IF m.run.ei < Len(m.run.llmList) THEN leadershipQuery(m1, m.run.ei + 1)
     ELSE IF m.run.li < Len(m.run.leaderList) THEN startLeader(m2, m.run.li + 1)
     ELSE enterPodcast(m2)

\* a slip: the Report gathered so far is published after each podcast answer
afterPodcastPublishing(m, podcastResult) ==
  LET llm == m.run.llmList[m.run.ei]
      m1 == [m EXCEPT !.run.allResults.podcastOpportunities =
                         Append(@, [llm |-> llm, results |-> podcastResult]),
                      !.results = <<m.run.allResults>>]
  IN IF m.run.ei < Len(m.run.llmList) THEN podcastQuery(m1, m.run.ei + 1)
     ELSE enterCompetitors(m1)

\* line 311, then the next engine or the competitor loop
afterPodcast(m, podcastResult) ==
  LET llm == m.run.llmList[m.run.ei]
      m1 == [m EXCEPT !.run.allResults.podcastOpportunities =
                         Append(@, [llm |-> llm, results |-> podcastResult])]
  IN IF m.run.ei < Len(m.run.llmList) THEN podcastQuery(m1, m.run.ei + 1)
     ELSE enterCompetitors(m1)

\* line 327, then the competitor's first request
afterCompetitorSemrush(m, compSemrush) ==
  competitorQuery([m EXCEPT !.run.competitorResults.semrushData = DataOrNull(compSemrush)], 1)

\* a slip: the competitor's result is stored under the first engine's key
afterCompetitorUnderFirstEngine(m, result) ==
  LET m1 == [m EXCEPT !.run.competitorResults.byLLM =
                         MapSet(@, m.run.llmList[1], result)]
      m2 == [m1 EXCEPT !.run.allResults.competitors = Append(@, m1.run.competitorResults)]
  IN IF m.run.ei < Len(m.run.llmList) THEN competitorQuery(m1, m.run.ei + 1)
     ELSE IF m.run.ci < Len(m.run.compList) THEN startCompetitor(m2, m.run.ci + 1)
     ELSE finishRun(m2)

\* line 340, then the next engine, the next competitor (line 343) or the end
afterCompetitor(m, result) ==
  LET m1 == [m EXCEPT !.run.competitorResults.byLLM =
                         MapSet(@, m.run.llmList[m.run.ei], result)]
      m2 == [m1 EXCEPT !.run.allResults.competitors = Append(@, m1.run.competitorResults)]
  IN IF m.run.ei < Len(m.run.llmList) THEN competitorQuery(m1, m.run.ei + 1)
     ELSE IF m.run.ci < Len(m.run.compList) THEN startCompetitor(m2, m.run.ci + 1)
     ELSE finishRun(m2)

\* --------------------------------------------------------- start of a run
\* prev[id]: undefined, which is falsy, for a key the object lacks
isSelected(prev, id) == \E i \in 1..Len(prev) : prev[i].id = id /\ prev[i].selected

\* a slip: the toggled key is deleted and added again, which moves it last
toggledMovingKey(prev, id) ==
  LET others == {i \in 1..Len(prev) : prev[i].id # id}
      kept == SelectSeqBy(prev, 1, {prev[i] : i \in others})
  IN Append(kept, [id |-> id, selected |-> ~isSelected(prev, id)])

\* line 1138, { ...prev, [id]: !prev[id] }: a key the object has keeps its
\* place, a new key goes last
toggled(prev, id) ==
  IF \E i \in 1..Len(prev) : prev[i].id = id
  THEN [i \in 1..Len(prev) |->
          IF prev[i].id = id THEN [id |-> id, selected |-> ~prev[i].selected] ELSE prev[i]]
  ELSE Append(prev, [id |-> id, selected |-> TRUE])

\* lines 191-193: Object.entries(selectedLLMs) in key order, filtered by the
\* selected flag and mapped to the registry entry of the id
selectedLLMList ==
  LET ids == [i \in 1..Len(selectedLLMs) |-> selectedLLMs[i].id]
  IN SelectSeqBy(ids, 1, {id \in Range(llmOptions) : isSelected(selectedLLMs, id)})

\* lines 215-222
totalQueriesOf(llmCount, leaderCount, competitorCount) ==
  llmCount + llmCount * leaderCount + llmCount * leaderCount
  + llmCount * leaderCount + llmCount * competitorCount + llmCount

\* a slip: fetchSemrushData is called without await
mainSemrushNotAwaited(m) ==
  IF m.run.form.website # ""
  THEN companyQuery(
         fetchSemrushData(
           setProgress(m, [current |-> 0, total |-> m.run.totalQueries,
                           message |-> <<"Fetching SEMRush data">>]),
           m.run.form.website), 1)
  ELSE companyQuery(m, 1)

\* lines 226-232, or the company loop at once
mainSemrush(m) ==
  IF m.run.form.website # ""
  THEN fetchSemrushData(
         setProgress([m EXCEPT !.run.pc = "semrush"],
                     [current |-> 0, total |-> m.run.totalQueries,
                      message |-> <<"Fetching SEMRush data">>]),
         m.run.form.website)
  ELSE companyQuery(m, 1)

\* a slip: the early return leaves loading set
noEngineSelectedStillLoading(m) ==
  [m EXCEPT !.error = "Please select at least one AI search engine",
            !.outcome = "noEngines"]

\* lines 195-199: the early return
noEngineSelected(m) ==
  [m EXCEPT !.error = "Please select at least one AI search engine",
            !.loading = FALSE,
            !.outcome = "noEngines"]

\* a slip: the error message of the last run is not cleared
runAnalysisKeepingError(m) ==
  LET m0 == [m EXCEPT !.loading = TRUE, !.results = Null,
                      !.semrushData = "null", !.trace = <<>>, !.outcome = "running"]
      list == selectedLLMList
      leaderCount == Cardinality({i \in 1..Len(formData.leadership) :
                                     leaderObj[formData.leadership[i]].name # ""})
      competitorCount == Cardinality({i \in 1..Len(formData.competitors) :
                                     competitorObj[formData.competitors[i]].name # ""})
      total == totalQueriesOf(Len(list), leaderCount, competitorCount)
      m1 == [m0 EXCEPT !.run = [IdleRun EXCEPT
                 !.form = formData, !.llmList = list, !.totalQueries = total,
                 !.currentQuery = 0,
                 !.allResults = [EmptyReport EXCEPT !.companyName = formData.companyName,
                                                    !.website = formData.website]]]
  IN IF Len(list) = 0 THEN noEngineSelected(m0) ELSE mainSemrush(m1)

\* lines 182-232: runAnalysis up to its first await, or to its early return
runAnalysis(m) ==
  LET m0 == [m EXCEPT !.loading = TRUE, !.error = "null", !.results = Null,
                      !.semrushData = "null", !.trace = <<>>, !.outcome = "running"]
      list == selectedLLMList
      leaderCount == Cardinality({i \in 1..Len(formData.leadership) :
                                     leaderObj[formData.leadership[i]].name # ""})
      competitorCount == Cardinality({i \in 1..Len(formData.competitors) :
                                     competitorObj[formData.competitors[i]].name # ""})
      total == totalQueriesOf(Len(list), leaderCount, competitorCount)
      m1 == [m0 EXCEPT !.run = [IdleRun EXCEPT
                 !.form = formData, !.llmList = list, !.totalQueries = total,
                 !.currentQuery = 0,
                 !.allResults = [EmptyReport EXCEPT !.companyName = formData.companyName,
                                                    !.website = formData.website]]]
  IN IF Len(list) = 0 THEN noEngineSelected(m0) ELSE mainSemrush(m1)

\* a slip: the button is not disabled while loading
runDisabledWhenUnnamed == formData.companyName = ""

\* a slip: the button is disabled only while loading
runDisabledWhileLoading == loading

\* the Run button's disabled attribute, line 1162
runDisabled == loading \/ formData.companyName = ""

\* ------------------------------------------------ identities of row objects
\* Row objects no run refers to are renumbered in row order.
CanonForm(f) ==
  [f EXCEPT !.leadership = [i \in 1..Len(f.leadership) |-> i],
            !.competitors = [i \in 1..Len(f.competitors) |-> i]]

CanonLeaderObj(f, lo) ==
  [o \in LeaderObjs |-> IF o <= Len(f.leadership) THEN lo[f.leadership[o]] ELSE NoLeader]

CanonCompetitorObj(f, co) ==
  [o \in CompetitorObjs |-> IF o <= Len(f.competitors) THEN co[f.competitors[o]] ELSE NoCompetitor]

SetForm(f, lo, co, inRun) ==
  IF inRun
  THEN /\ formData' = f
       /\ leaderObj' = lo
       /\ competitorObj' = co
  ELSE /\ formData' = CanonForm(f)
       /\ leaderObj' = CanonLeaderObj(f, lo)
       /\ competitorObj' = CanonCompetitorObj(f, co)

\* the state a segment of runAnalysis leaves behind; the segment is computed
\* once and its outcome stored
Apply(m) ==
  \E after \in {m} :
    /\ run' = after.run
    /\ inflight' = after.inflight
    /\ progress' = after.progress
    /\ trace' = after.trace
    /\ results' = after.results
    /\ loading' = after.loading
    /\ semrushData' = after.semrushData
    /\ error' = after.error
    /\ outcome' = after.outcome
    /\ SetForm(formData, leaderObj, competitorObj, after.loading)
    /\ lastClick' = "none"
    /\ UNCHANGED <<selectedLLMs, displayVars, serviceVars>>

NoBrief ==
  [companyName |-> "", website |-> "", leaderRows |-> <<>>, competitorRows |-> <<>>,
   leaders |-> <<>>, competitors |-> <<>>, engines |-> <<>>]

\* the component after construction; nothing has been handed to the
\* aggregate functions yet
InitComponent ==
  /\ formData = [companyName |-> "", website |-> "", leadership |-> <<1>>, competitors |-> <<1>>]
  /\ leaderObj = [o \in LeaderObjs |-> NoLeader]
  /\ competitorObj = [o \in CompetitorObjs |-> NoCompetitor]
  /\ selectedLLMs = [i \in 1..Len(selectedLLMsKeys) |->
                       [id |-> selectedLLMsKeys[i],
                        selected |-> selectedLLMsKeys[i] \in {"chatgpt", "gemini"}]]
  /\ results = Null
  /\ loading = FALSE
  /\ progress = NoProgress
  /\ error = "null"
  /\ semrushData = "null"
  /\ run = IdleRun
  /\ inflight = {}
  /\ trace = <<>>
  /\ startBrief = NoBrief
  /\ outcome = "none"
  /\ budget = MaxDisturbances
  /\ lastClick = "none"

NothingShown ==
  [score |-> 0, sentiment |-> "", emailScore |-> 0, emailSentiment |-> "",
   cards |-> <<>>, done |-> FALSE]

\* lines 36-43: the modal is closed, its form empty; an e-mail address is the
\* sequence of its characters; timer tells that the setTimeout of line 396
\* is pending
NoMail ==
  [showEmailModal |-> FALSE,
   emailForm |-> [name |-> "", company |-> "", email |-> <<>>],
   emailSending |-> FALSE, emailStatus |-> "null", timer |-> FALSE]

\* no request to /api/send-report is in flight and none has been handled
NoDelivery == [pending |-> <<>>, last |-> <<>>]

\* no request to the diagnostics endpoint is being handled
NoDiagnosis ==
  [pc |-> "idle", env |-> [anthropic |-> TRUE, semrush |-> TRUE, resend |-> TRUE],
   checks |-> <<>>, summary |-> ""]

InitServices ==
  /\ mail = NoMail
  /\ delivery = NoDelivery
  /\ diagnosis = NoDiagnosis

\* -------------------------------------------------------------------- Init
Init ==
  /\ InitComponent
  /\ byLLM = <<>>
  /\ shown = NothingShown
  /\ InitServices

\* The history of a run is kept until the operator's next action after it.
History ==
  IF loading THEN UNCHANGED <<trace, startBrief, outcome>>
  ELSE /\ trace' = <<>>
       /\ startBrief' = NoBrief
       /\ outcome' = "none"

\* ------------------------------------------------------- operator actions
\* The form is rendered only while results is null (line 1029).  An action
\* taken while a run is in flight draws on the budget MaxDisturbances.
Edit(f, lo, co) ==
  /\ results = Null
  /\ loading => budget > 0
  /\ budget' = IF loading THEN budget - 1 ELSE budget
  /\ SetForm(f, lo, co, loading)
  /\ lastClick' = "none"
  /\ History
  /\ UNCHANGED <<selectedLLMs, results, loading, progress, error, semrushData, run,
                 inflight, displayVars, serviceVars>>

handleInputChange ==
  \/ \E v \in CompanyNames :
       /\ v # formData.companyName
       /\ Edit([formData EXCEPT !.companyName = v], leaderObj, competitorObj)
  \/ \E v \in Domains :
       /\ v # formData.website
       /\ Edit([formData EXCEPT !.website = v], leaderObj, competitorObj)

\* updated[index][field] = value writes the row object itself
handleLeadershipChange ==
  \E index \in 1..Len(formData.leadership), v \in PersonNames :
    /\ v # leaderObj[formData.leadership[index]].name
    /\ Edit(formData, [leaderObj EXCEPT ![formData.leadership[index]].name = v], competitorObj)

addLeadership ==
  LET used == Range(formData.leadership) \cup Range(run.form.leadership)
      free == LeaderObjs \ used
      o == CHOOSE x \in free : \A y \in free : x <= y
  IN /\ Len(formData.leadership) < LeaderRowLimit
     /\ Len(formData.leadership) < MaxLeaderRows
     /\ free # {}
     /\ Edit([formData EXCEPT !.leadership = Append(@, o)],
             [leaderObj EXCEPT ![o] = NoLeader], competitorObj)

removeLeadership ==
  \E index \in 1..Len(formData.leadership) :
    /\ Len(formData.leadership) > 1
    /\ Edit([formData EXCEPT !.leadership = RemoveAt(@, index)], leaderObj, competitorObj)

handleCompetitorChange ==
  \E index \in 1..Len(formData.competitors) :
    \/ \E v \in RivalNames :
         /\ v # competitorObj[formData.competitors[index]].name
         /\ Edit(formData, leaderObj,
                 [competitorObj EXCEPT ![formData.competitors[index]].name = v])
    \/ \E v \in Domains :
         /\ v # competitorObj[formData.competitors[index]].website
         /\ Edit(formData, leaderObj,
                 [competitorObj EXCEPT ![formData.competitors[index]].website = v])

addCompetitor ==
  LET used == Range(formData.competitors) \cup Range(run.form.competitors)
      free == CompetitorObjs \ used
      o == CHOOSE x \in free : \A y \in free : x <= y
  IN /\ Len(formData.competitors) < CompetitorRowLimit
     /\ Len(formData.competitors) < MaxCompetitorRows
     /\ free # {}
     /\ Edit([formData EXCEPT !.competitors = Append(@, o)], leaderObj,
             [competitorObj EXCEPT ![o] = NoCompetitor])

removeCompetitor ==
  \E index \in 1..Len(formData.competitors) :
    Edit([formData EXCEPT !.competitors = RemoveAt(@, index)], leaderObj, competitorObj)

\* line 1138: the engine chips
toggleLLM ==
  \E id \in ToggleIds :
    /\ results = Null
    /\ loading => budget > 0
    /\ budget' = IF loading THEN budget - 1 ELSE budget
    /\ selectedLLMs' = toggled(selectedLLMs, id)
    /\ lastClick' = "none"
    /\ History
    /\ UNCHANGED <<formData, leaderObj, competitorObj, results, loading, progress, error,
                   semrushData, run, inflight, displayVars, serviceVars>>

\* line 1199: "New Report"
newReport ==
  /\ results # Null
  /\ results' = Null
  /\ lastClick' = "none"
  /\ History
  /\ UNCHANGED <<formData, leaderObj, competitorObj, selectedLLMs, loading, progress, error,
                 semrushData, run, inflight, budget, displayVars, serviceVars>>

\* a click on the Run button while it is disabled: no handler runs
clickDisabledRun ==
  /\ results = Null
  /\ runDisabled
  /\ lastClick = "none"
  /\ loading => budget > 0
  /\ budget' = IF loading THEN budget - 1 ELSE budget
  /\ lastClick' = "blocked"
  /\ History
  /\ UNCHANGED <<formData, leaderObj, competitorObj, selectedLLMs, results, loading,
                 progress, error, semrushData, run, inflight, displayVars, serviceVars>>

BriefByValue ==
  [companyName |-> formData.companyName, website |-> formData.website,
   leaderRows |-> formData.leadership, competitorRows |-> formData.competitors,
   leaders |-> [i \in 1..Len(formData.leadership) |-> leaderObj[formData.leadership[i]].name],
   competitors |-> [i \in 1..Len(formData.competitors) |->
                       competitorObj[formData.competitors[i]]],
   engines |-> selectedLLMList]

\* a click on the enabled Run button: runAnalysis runs to its first await
clickRun ==
  /\ results = Null
  /\ ~runDisabled
  /\ Apply(runAnalysis(Machine))
  /\ startBrief' = BriefByValue
  /\ budget' = MaxDisturbances

\* ------------------------------------------------------ gateway responses
\* the machine as the answer resp to the request req arrives
Received(req, resp) ==
  LET failed == ~(resp.reached /\ resp.ok /\ resp.readable)
      body == IF req.api = "/api/analyze" /\ ~failed THEN resp.body ELSE Sentinel
      data == IF req.api = "/api/semrush" /\ ~failed THEN resp.data ELSE "null"
  IN [Machine EXCEPT !.inflight = @ \ {req},
                     !.trace = Append(@, AnswerEvent(req.api, failed, body, data))]

\* an answer other than the normal one draws on the budget MaxDisturbances
Disturbance(isNormal) ==
  /\ ~isNormal => budget > 0
  /\ budget' = IF isNormal THEN budget ELSE budget - 1

AnalysisAnswer(pc, req, resp) ==
  /\ run.pc = pc
  /\ req.api = "/api/analyze"
  /\ Disturbance(resp = NormalResponse)
  /\ UNCHANGED startBrief

SemrushAnswer(pc, req, resp) ==
  /\ run.pc = pc
  /\ req.api = "/api/semrush"
  /\ Disturbance(resp = NormalSemrushResponse)
  /\ UNCHANGED startBrief

mainSemrushAnswer ==
  \E req \in inflight, resp \in SemrushResponses :
    /\ SemrushAnswer("semrush", req, resp)
    /\ Apply(afterMainSemrush(Received(req, resp), fetchSemrushDataResult(resp)))

entityAnswer ==
  \E req \in inflight, resp \in AnalyzeResponses :
    /\ AnalysisAnswer("entity", req, resp)
    /\ Apply(afterEntity(Received(req, resp), analyzeQueryResult(resp)))

leadershipAnswer ==
  \E req \in inflight, resp \in AnalyzeResponses :
    /\ AnalysisAnswer("leadership", req, resp)
    /\ Apply(afterLeadership(Received(req, resp), analyzeQueryResult(resp)))

pressAnswer ==
  \E req \in inflight, resp \in AnalyzeResponses :
    /\ AnalysisAnswer("press", req, resp)
    /\ Apply(afterPress(Received(req, resp), analyzeQueryResult(resp)))

socialAnswer ==
  \E req \in inflight, resp \in AnalyzeResponses :
    /\ AnalysisAnswer("social", req, resp)
    /\ Apply(afterSocial(Received(req, resp), analyzeQueryResult(resp)))

podcastAnswer ==
  \E req \in inflight, resp \in AnalyzeResponses :
    /\ AnalysisAnswer("podcast", req, resp)
    /\ Apply(afterPodcast(Received(req, resp), analyzeQueryResult(resp)))

competitorSemrushAnswer ==
  \E req \in inflight, resp \in SemrushResponses :
    /\ SemrushAnswer("compSemrush", req, resp)
    /\ Apply(afterCompetitorSemrush(Received(req, resp), fetchSemrushDataResult(resp)))

competitorAnswer ==
  \E req \in inflight, resp \in AnalyzeResponses :
    /\ AnalysisAnswer("competitor", req, resp)
    /\ Apply(afterCompetitor(Received(req, resp), analyzeQueryResult(resp)))

Next ==
  \/ handleInputChange
  \/ handleLeadershipChange
  \/ addLeadership
  \/ removeLeadership
  \/ handleCompetitorChange
  \/ addCompetitor
  \/ removeCompetitor
  \/ toggleLLM
  \/ newReport
  \/ clickDisabledRun
  \/ clickRun
  \/ mainSemrushAnswer
  \/ entityAnswer
  \/ leadershipAnswer
  \/ pressAnswer
  \/ socialAnswer
  \/ podcastAnswer
  \/ competitorSemrushAnswer
  \/ competitorAnswer

Spec == Init /\ [][Next]_vars

\* ------------------------------------------------------- internal failures
\* lines 182-187 and 201-225, with a statement of the try block throwing
\* before the first await
runAnalysisThrowing(m) ==
  LET m0 == [m EXCEPT !.loading = TRUE, !.error = "null", !.results = Null,
                      !.semrushData = "null", !.trace = <<>>, !.outcome = "running"]
      m1 == [m0 EXCEPT !.run = [IdleRun EXCEPT
                 !.form = formData, !.llmList = selectedLLMList,
                 !.allResults = [EmptyReport EXCEPT !.companyName = formData.companyName,
                                                    !.website = formData.website]]]
  IN abortRun(m1)

NormalAnswerTo(req) ==
  IF req.api = "/api/analyze" THEN NormalResponse ELSE NormalSemrushResponse

\* An exception raised by a statement of the try block of runAnalysis that
\* is not a gateway call: in the first segment of the run, or as the run
\* resumes after an await, before it issues its next request.
internalFailure ==
  \/ /\ results = Null
     /\ ~runDisabled
     /\ selectedLLMList # <<>>
     /\ Apply(runAnalysisThrowing(Machine))
     /\ startBrief' = BriefByValue
     /\ budget' = MaxDisturbances
  \/ \E req \in inflight :
       \E resp \in IF req.api = "/api/analyze" THEN AnalyzeResponses ELSE SemrushResponses :
         /\ loading
         /\ Disturbance(resp = NormalAnswerTo(req))
         /\ Apply(abortRun(Received(req, resp)))
         /\ UNCHANGED startBrief

NextWithFailures == Next \/ internalFailure

SpecWithFailures == Init /\ [][NextWithFailures]_vars

\* ----------------------------------------------------------------- fairness
\* the answer to the gateway request in flight arrives and the run resumes
gatewayAnswers ==
  \/ mainSemrushAnswer
  \/ entityAnswer
  \/ leadershipAnswer
  \/ pressAnswer
  \/ socialAnswer
  \/ podcastAnswer
  \/ competitorSemrushAnswer
  \/ competitorAnswer

\* every gateway request eventually returns or fails
SpecFair == Init /\ [][NextWithFailures]_vars /\ WF_vars(gatewayAnswers)

\* ------------------------------------------------- aggregates and display
\* The aggregate functions take a map of engine results: the sequence of its
\* entries in insertion order.  A field of a result that may be missing is
\* <<>> when absent and <<v>> when it has the value v.
MaxMapEntries == 3       \* entries of the map handed to the aggregate functions

Absent == <<>>

EngineResult(hasError, confidenceScore, sentimentScore, sentiment) ==
  [error |-> hasError, confidenceScore |-> confidenceScore,
   sentimentScore |-> sentimentScore, sentiment |-> sentiment]

SentimentChoices ==
  {Absent, <<"positive">>, <<"neutral">>, <<"negative">>, <<"Negative">>, <<"mixed">>}

\* results as the gateway records them, and bodies with missing fields
EngineResults ==
  {EngineResult(FALSE, <<8>>, <<7>>, s) : s \in SentimentChoices}
  \cup {EngineResult(TRUE, <<0>>, <<0>>, <<"unknown">>),
        EngineResult(TRUE, <<3>>, <<3>>, <<"negative">>),
        EngineResult(FALSE, <<5>>, <<5>>, <<"neutral">>),
        EngineResult(FALSE, Absent, <<6>>, <<"positive">>),
        EngineResult(FALSE, <<0>>, <<6>>, <<"positive">>),
        EngineResult(FALSE, Absent, Absent, <<"positive">>),
        EngineResult(FALSE, <<10>>, Absent, <<"positive">>)}

EngineMaps ==
  UNION {[1..n -> EngineResults] : n \in 0..Min(MaxMapEntries, Len(llmOptions))}

\* a || b on numbers that may be missing: a unless it is missing or 0
OrElse(a, b) == IF a # Absent /\ a[1] # 0 THEN a ELSE b

\* String.prototype.toLowerCase on the sentiments in use
toLowerCase(str) == IF str = "Negative" THEN "negative" ELSE str

\* (sum / count).toFixed(1), in tenths: the nearest tenth, the larger one
\* when two are equally near
toFixed1(sum, count) == (20 * sum + count) \div (2 * count)

RECURSIVE SumSeq(_)
SumSeq(s) == IF s = <<>> THEN 0 ELSE Head(s) + SumSeq(Tail(s))

Positive(n) == n > 0

\* lines 426-432; the result is in tenths
calculateAvgScore(map) ==
  LET values == [i \in 1..Len(map) |->
                   OrElse(map[i].confidenceScore, OrElse(map[i].sentimentScore, <<0>>))[1]]
      scores == SelectSeq(values, Positive)
  IN IF Len(scores) = 0 THEN 0 ELSE toFixed1(SumSeq(scores), Len(scores))

\* src/api/send-report.js lines 664-670; the result is in tenths
calculateAverageScore(companyResults) ==
  LET values == [i \in 1..Len(companyResults) |->
                   OrElse(companyResults[i].confidenceScore, <<0>>)[1]]
      scores == SelectSeq(values, Positive)
  IN IF Len(scores) = 0 THEN 0 ELSE toFixed1(SumSeq(scores), Len(scores))

\* .map(r => r.results?.sentiment).filter(Boolean)
sentimentsOf(map) ==
  LET present == {i \in 1..Len(map) : map[i].sentiment # Absent /\ map[i].sentiment[1] # ""}
      all == [i \in 1..Len(map) |-> IF i \in present THEN map[i].sentiment[1] ELSE ""]
  IN SelectSeqBy(all, 1, {all[i] : i \in present})

RECURSIVE DistinctSeq(_)
\* s without repetitions, in the order of first occurrence
DistinctSeq(s) ==
  IF s = <<>> THEN <<>>
  ELSE LET d == DistinctSeq(SubSeq(s, 1, Len(s) - 1))
       IN IF \E i \in 1..Len(d) : d[i] = s[Len(s)] THEN d ELSE Append(d, s[Len(s)])

\* the counts object after the forEach: its keys in insertion order, the
\* three initial keys first, and the count of a key
countKeys(sentiments) ==
  DistinctSeq(<<"positive", "neutral", "negative">>
              \o [i \in 1..Len(sentiments) |-> toLowerCase(sentiments[i])])

countOf(sentiments, key) ==
  Cardinality({i \in 1..Len(sentiments) : toLowerCase(sentiments[i]) = key})

\* Object.entries(counts).sort((a, b) => b[1] - a[1])[0][0]: the sort is
\* stable, so the first key in insertion order among those of greatest count
topCount(sentiments) ==
  LET keys == countKeys(sentiments)
      best == CHOOSE i \in 1..Len(keys) :
                /\ \A j \in 1..Len(keys) : countOf(sentiments, keys[j]) <= countOf(sentiments, keys[i])
                /\ \A j \in 1..(i - 1) : countOf(sentiments, keys[j]) < countOf(sentiments, keys[i])
  IN keys[best]

\* lines 439-448
getOverallSentiment(company) ==
  LET sentiments == sentimentsOf(company)
  IN IF Len(sentiments) = 0 THEN "N/A" ELSE topCount(sentiments)

\* src/api/send-report.js lines 672-682
calculateAverageSentiment(companyResults) ==
  LET sentiments == sentimentsOf(companyResults)
  IN IF Len(sentiments) = 0 THEN "Unknown" ELSE topCount(sentiments)

\* What is rendered for one engine's result: marker tells whether the error
\* marker is shown, score is the score printed before "/10", Absent when no
\* score is printed.
\* lines 600-610: the overview card of a company result
overviewCard(r) == [marker |-> FALSE, score |-> OrElse(r.confidenceScore, <<0>>)]

\* lines 679-705: the company tab
companyCard(r) ==
  IF r.error THEN [marker |-> TRUE, score |-> Absent]
  ELSE [marker |-> FALSE, score |-> OrElse(r.confidenceScore, <<0>>)]

\* lines 742-755: the reputation score of a leader on the leaders tab
leaderCard(r) == [marker |-> FALSE, score |-> OrElse(r.sentimentScore, <<5>>)]

\* src/api/send-report.js lines 356-365: the reputation line of the PDF
pdfLeaderLine(r) == [marker |-> FALSE, score |-> OrElse(r.sentimentScore, <<5>>)]

\* what each place renders for the result r
cardsOf(r) ==
  [overview |-> overviewCard(r), company |-> companyCard(r), leader |-> leaderCard(r),
   pdfLeader |-> pdfLeaderLine(r)]

\* the overview, the tabs and the e-mail report are rendered from a map of results
renderReport ==
  /\ ~shown.done
  /\ shown' = [score |-> calculateAvgScore(byLLM),
               sentiment |-> getOverallSentiment(byLLM),
               emailScore |-> calculateAverageScore(byLLM),
               emailSentiment |-> calculateAverageSentiment(byLLM),
               cards |-> [i \in 1..Len(byLLM) |-> cardsOf(byLLM[i])],
               done |-> TRUE]
  /\ UNCHANGED <<formData, leaderObj, competitorObj, selectedLLMs, results, loading,
                 progress, error, semrushData, run, inflight, trace, startBrief,
                 outcome, budget, lastClick, byLLM, serviceVars>>

InitDisplay ==
  /\ InitComponent
  /\ byLLM \in EngineMaps
  /\ shown = NothingShown
  /\ InitServices

NextDisplay == renderReport

SpecDisplay == InitDisplay /\ [][NextDisplay]_vars

\* --------------------------------------------------------- e-mail delivery
MaxEmailLen == 5         \* characters of an e-mail address typed or posted

\* an ordinary character, the at sign, the dot, a blank
EmailChars == {"a", "@", ".", " "}

RecipientNames == {"", "Ann"}
RecipientCompanies == {"", "Acme"}

Emails == UNION {[1..n -> EmailChars] : n \in 0..MaxEmailLen}

\* the character class [^\s@]
NoSpaceNoAt(s, from, to) == \A k \in from..to : s[k] # " " /\ s[k] # "@"

\* /^[^\s@]+@[^\s@]+\.[^\s@]+$/.test(s): the at sign at i, the dot at j
emailRegex(s) ==
  \E i \in 1..Len(s), j \in 1..Len(s) :
    /\ 1 < i
    /\ i + 1 < j
    /\ j < Len(s)
    /\ s[i] = "@"
    /\ s[j] = "."
    /\ NoSpaceNoAt(s, 1, i - 1)
    /\ NoSpaceNoAt(s, i + 1, j - 1)
    /\ NoSpaceNoAt(s, j + 1, Len(s))

\* a Report as a completed run publishes it
PublishedReport ==
  [EmptyReport EXCEPT !.companyName = "Acme",
                      !.company = <<[llm |-> "chatgpt", results |-> NormalBody]>>,
                      !.podcastOpportunities = <<[llm |-> "chatgpt", results |-> NormalBody]>>]

\* { ...results, semrushData: semrushData }
ReportData ==
  IF results = Null THEN [EmptyReport EXCEPT !.semrushData = semrushData]
  ELSE [results[1] EXCEPT !.semrushData = semrushData]

\* a request to /api/send-report; a field the body lacks is "" (<<>> for
\* the address and the report data)
DeliveryRequest(origin, method, name, company, email, reportData) ==
  [origin |-> origin, method |-> method, recipientName |-> name,
   recipientCompany |-> company, recipientEmail |-> email, reportData |-> reportData]

\* what the handler did with a request: the status it answered with, whether
\* generatePDF returned a PDF, whether the e-mail was sent
Handled(status, pdf, sent) == [status |-> status, pdf |-> pdf, sent |-> sent]

\* what the mail service and the PDF library can do for one request
ServiceOutcomes == {"noKey", "pdfThrows", "resendError", "resendThrows", "sent"}

\* a slip: the handler does not test the shape of the address
handlerWithoutRegex(req, service) ==
  IF req.method = "OPTIONS" THEN Handled(200, FALSE, FALSE)
  ELSE IF req.method # "POST" THEN Handled(405, FALSE, FALSE)
  ELSE IF req.recipientName = "" \/ req.recipientCompany = "" \/ req.recipientEmail = <<>>
  THEN Handled(400, FALSE, FALSE)
  ELSE IF req.reportData = <<>> THEN Handled(400, FALSE, FALSE)
  ELSE IF service = "noKey" THEN Handled(500, FALSE, FALSE)
  ELSE IF service = "pdfThrows" THEN Handled(500, FALSE, FALSE)
  ELSE IF service \in {"resendError", "resendThrows"} THEN Handled(500, TRUE, FALSE)
  ELSE Handled(200, TRUE, TRUE)

\* src/api/send-report.js lines 7-84
handler(req, service) ==
  IF req.method = "OPTIONS" THEN Handled(200, FALSE, FALSE)
  ELSE IF req.method # "POST" THEN Handled(405, FALSE, FALSE)
  ELSE IF req.recipientName = "" \/ req.recipientCompany = "" \/ req.recipientEmail = <<>>
  THEN Handled(400, FALSE, FALSE)
  ELSE IF req.reportData = <<>> THEN Handled(400, FALSE, FALSE)
  ELSE IF ~emailRegex(req.recipientEmail) THEN Handled(400, FALSE, FALSE)
  ELSE IF service = "noKey" THEN Handled(500, FALSE, FALSE)
  ELSE IF service = "pdfThrows" THEN Handled(500, FALSE, FALSE)
  ELSE IF service \in {"resendError", "resendThrows"} THEN Handled(500, TRUE, FALSE)
  ELSE Handled(200, TRUE, TRUE)

\* the frame of the e-mail actions
EmailFrame ==
  UNCHANGED <<formData, leaderObj, competitorObj, selectedLLMs, results, loading,
              progress, error, semrushData, run, inflight, trace, startBrief,
              outcome, budget, lastClick, displayVars, diagnosis>>

\* what the handler did last is kept until the operator's next action
ForgetLast == delivery' = [delivery EXCEPT !.last = <<>>]

\* line 1196: "Email My Report"
openEmailModal ==
  /\ results # Null
  /\ ~mail.showEmailModal
  /\ mail' = [mail EXCEPT !.showEmailModal = TRUE]
  /\ ForgetLast
  /\ EmailFrame

\* lines 1243 and 1278: a click beside the modal, or on Cancel
closeEmailModal ==
  /\ mail.showEmailModal
  /\ mail' = [mail EXCEPT !.showEmailModal = FALSE]
  /\ ForgetLast
  /\ EmailFrame

\* lines 1249, 1254, 1259: the inputs of the modal; the address is typed and
\* erased a character at a time.  What is typed while a request is in flight
\* reaches neither the request, built at line 376, nor the handler, and is
\* left out.
setEmailForm ==
  /\ mail.showEmailModal
  /\ ~mail.emailSending
  /\ \/ \E v \in RecipientNames :
          /\ v # mail.emailForm.name
          /\ mail' = [mail EXCEPT !.emailForm.name = v]
     \/ \E v \in RecipientCompanies :
          /\ v # mail.emailForm.company
          /\ mail' = [mail EXCEPT !.emailForm.company = v]
     \/ \E c \in EmailChars :
          /\ Len(mail.emailForm.email) < MaxEmailLen
          /\ mail' = [mail EXCEPT !.emailForm.email = Append(@, c)]
     \/ /\ mail.emailForm.email # <<>>
        /\ mail' = [mail EXCEPT !.emailForm.email = SubSeq(@, 1, Len(@) - 1)]
  /\ ForgetLast
  /\ EmailFrame

\* lines 359-385: sendEmailReport up to its first await, or to an early return
sendEmailReport ==
  /\ mail.showEmailModal
  /\ ~mail.emailSending
  /\ LET f == mail.emailForm
     IN IF f.name = "" \/ f.company = "" \/ f.email = <<>>
        THEN /\ mail' = [mail EXCEPT !.emailStatus = "All fields are required"]
             /\ ForgetLast
        ELSE IF ~emailRegex(f.email)
        THEN /\ mail' = [mail EXCEPT !.emailStatus = "Please enter a valid email address"]
             /\ ForgetLast
        ELSE /\ mail' = [mail EXCEPT !.emailSending = TRUE, !.emailStatus = "null"]
             /\ delivery' = [pending |-> <<DeliveryRequest("component", "POST", f.name,
                                                           f.company, f.email, <<ReportData>>)>>,
                             last |-> <<>>]
  /\ EmailFrame

\* the handler answers the component's request and sendEmailReport resumes,
\* lines 387-406
deliveryAnswer ==
  \E service \in ServiceOutcomes :
    /\ delivery.pending # <<>>
    /\ LET did == handler(delivery.pending[1], service)
       IN /\ delivery' = [pending |-> <<>>,
                          last |-> <<[request |-> delivery.pending[1], did |-> did]>>]
          /\ mail' = IF did.status = 200
                     THEN [mail EXCEPT !.emailStatus = "success", !.timer = TRUE,
                                       !.emailSending = FALSE]
                     ELSE [mail EXCEPT !.emailStatus = "error", !.emailSending = FALSE]
    /\ EmailFrame

\* the request does not reach the handler: fetch rejects, lines 402-406
deliveryLost ==
  /\ delivery.pending # <<>>
  /\ delivery' = [pending |-> <<>>, last |-> <<>>]
  /\ mail' = [mail EXCEPT !.emailStatus = "error", !.emailSending = FALSE]
  /\ EmailFrame

\* lines 396-400: three seconds after a success
closeAfterSuccess ==
  /\ mail.timer
  /\ mail' = [mail EXCEPT !.showEmailModal = FALSE, !.emailStatus = "null",
                          !.emailForm = NoMail.emailForm, !.timer = FALSE]
  /\ ForgetLast
  /\ EmailFrame

DirectRequests ==
  {DeliveryRequest("other", method, n, c, e, d) :
     method \in {"POST", "GET", "OPTIONS"}, n \in RecipientNames, c \in RecipientCompanies,
     e \in Emails, d \in {<<>>, <<PublishedReport>>}}

\* A request of another client than the component reaches the handler.  It
\* does not depend on the component, so it is taken while the modal is
\* untouched and nothing else has been handled only.
postReport ==
  /\ mail = NoMail
  /\ delivery = NoDelivery
  /\ \E req \in DirectRequests, service \in ServiceOutcomes :
       delivery' = [pending |-> <<>>,
                    last |-> <<[request |-> req, did |-> handler(req, service)]>>]
  /\ UNCHANGED mail
  /\ EmailFrame

\* the component with the Report of a completed run on display
InitEmail ==
  /\ formData = [companyName |-> "Acme", website |-> "", leadership |-> <<1>>,
                 competitors |-> <<1>>]
  /\ leaderObj = [o \in LeaderObjs |-> NoLeader]
  /\ competitorObj = [o \in CompetitorObjs |-> NoCompetitor]
  /\ selectedLLMs = [i \in 1..Len(selectedLLMsKeys) |->
                       [id |-> selectedLLMsKeys[i], selected |-> selectedLLMsKeys[i] = "chatgpt"]]
  /\ results = <<PublishedReport>>
  /\ loading = FALSE
  /\ progress = NoProgress
  /\ error = "null"
  /\ semrushData = "null"
  /\ run = IdleRun
  /\ inflight = {}
  /\ trace = <<>>
  /\ startBrief = NoBrief
  /\ outcome = "none"
  /\ budget = MaxDisturbances
  /\ lastClick = "none"
  /\ byLLM = <<>>
  /\ shown = NothingShown
  /\ InitServices

NextEmail ==
  \/ openEmailModal
  \/ closeEmailModal
  \/ setEmailForm
  \/ sendEmailReport
  \/ deliveryAnswer
  \/ deliveryLost
  \/ closeAfterSuccess
  \/ postReport

SpecEmail == InitEmail /\ [][NextEmail]_vars

\* -------------------------------------------------- diagnostics endpoint
\* src/unnamed/part_003.  env tells which of the three API keys are set;
\* checks is the results.checks object: the sequence of its entries in
\* insertion order, a field an entry lacks being "".
Environments == [anthropic : BOOLEAN, semrush : BOOLEAN, resend : BOOLEAN]

Check(service, status, apiTest, errorText, hint) ==
  [service |-> service, status |-> status, apiTest |-> apiTest, error |-> errorText,
   hint |-> hint]

\* lines 117-123
getAnthropicHint(status) ==
  CASE status = 401 -> "API key is invalid or expired"
    [] status = 403 -> "API key doesn't have required permissions"
    [] status = 429 -> "Rate limited - check credits at console.anthropic.com"
    [] status = 500 -> "Anthropic server error - try again later"
    [] OTHER -> "Check Vercel function logs for details"

\* what the test call of a service can do; for the Anthropic client 200 is
\* an answer, another number the status of the error it throws, 0 an error
\* without status
AnthropicOutcomes == {200, 401, 403, 429, 500, 0}
SemrushOutcomes == {"answers", "answersERROR", "throws"}
ResendOutcomes == {"initializes", "throws"}

DiagnosisFrame ==
  UNCHANGED <<formData, leaderObj, competitorObj, selectedLLMs, results, loading,
              progress, error, semrushData, run, inflight, trace, startBrief,
              outcome, budget, lastClick, displayVars, mail, delivery>>

\* lines 13-45
checkAnthropic ==
  /\ diagnosis.pc = "anthropic"
  /\ \E call \in AnthropicOutcomes :
       diagnosis' =
         [diagnosis EXCEPT
            !.pc = "semrush",
            !.checks = Append(@,
               IF ~diagnosis.env.anthropic THEN Check("anthropic", "FAIL", "", "", "")
               ELSE IF call = 200 THEN Check("anthropic", "PASS", "PASS", "", "")
               ELSE Check("anthropic", "PASS", "FAIL", "message", getAnthropicHint(call)))]
  /\ DiagnosisFrame

\* lines 47-78
checkSemrush ==
  /\ diagnosis.pc = "semrush"
  /\ \E call \in SemrushOutcomes :
       diagnosis' =
         [diagnosis EXCEPT
            !.pc = "resend",
            !.checks = Append(@,
               IF ~diagnosis.env.semrush THEN Check("semrush", "NOT_SET", "", "", "")
               ELSE IF call = "answers" THEN Check("semrush", "PASS", "PASS", "", "")
               ELSE IF call = "answersERROR" THEN Check("semrush", "PASS", "FAIL", "text", "")
               ELSE Check("semrush", "PASS", "FAIL", "message", ""))]
  /\ DiagnosisFrame

\* lines 80-106
checkResend ==
  /\ diagnosis.pc = "resend"
  /\ \E call \in ResendOutcomes :
       diagnosis' =
         [diagnosis EXCEPT
            !.pc = "summary",
            !.checks = Append(@,
               IF ~diagnosis.env.resend THEN Check("resend", "NOT_SET", "", "", "")
               ELSE IF call = "initializes" THEN Check("resend", "PASS", "PASS", "", "")
               ELSE Check("resend", "PASS", "FAIL", "message", ""))]
  /\ DiagnosisFrame

\* lines 109-111
allPassed(checks) ==
  \A i \in 1..Len(checks) : checks[i].status = "PASS" \/ checks[i].status = "NOT_SET"

\* lines 108-114
summarize ==
  /\ diagnosis.pc = "summary"
  /\ diagnosis' =
       [diagnosis EXCEPT
          !.pc = "answered",
          !.summary = IF allPassed(diagnosis.checks)
                      THEN "All configured services are working"
                      ELSE "Some services need attention"]
  /\ DiagnosisFrame

\* a request reaches the diagnostics endpoint of a deployment
InitDiagnosis ==
  /\ InitComponent
  /\ byLLM = <<>>
  /\ shown = NothingShown
  /\ mail = NoMail
  /\ delivery = NoDelivery
  /\ \E env \in Environments :
       diagnosis = [pc |-> "anthropic", env |-> env, checks |-> <<>>, summary |-> ""]

NextDiagnosis ==
  \/ checkAnthropic
  \/ checkSemrush
  \/ checkResend
  \/ summarize

SpecDiagnosis == InitDiagnosis /\ [][NextDiagnosis]_vars

\* ================================================================ claims
IsProgress(e) == e.ev = "progress"
IsAnalysis(e) == e.ev = "analysis"
IsBacklink(e) == e.ev = "backlink"
IsAnalysisAnswer(e) == e.ev = "analysisAnswer"
IsBacklinkAnswer(e) == e.ev = "backlinkAnswer"

ProgressEvents(tr) == SelectSeq(tr, IsProgress)
Requests(tr) == SelectSeq(tr, IsAnalysis)
AnalysisAnswers(tr) == SelectSeq(tr, IsAnalysisAnswer)

NamedCount(names) == Cardinality({i \in 1..Len(names) : names[i] # ""})

\* E*(1 + 3*L + C) + E for the brief as it was when the run started
PlannedTotal(b) ==
  LET E == Len(b.engines)
      L == NamedCount(b.leaders)
      C == NamedCount([i \in 1..Len(b.competitors) |-> b.competitors[i].name])
  IN E * (1 + 3 * L + C) + E

\* C1: every progress event of a run carries the total E*(1+3L+C)+E of the
\* brief the run was started with, and a run that completes has dispatched
\* exactly that many analysis requests.
C1_TotalAndDispatchCount ==
  /\ outcome \in {"running", "completed"} =>
       \A i \in 1..Len(trace) :
         IsProgress(trace[i]) => trace[i].total = PlannedTotal(startBrief)
  /\ outcome = "completed" => Len(Requests(trace)) = PlannedTotal(startBrief)

\* --------------------------------------------------------------------- C2
Task(e) == [type |-> e.type, llm |-> e.llm, row |-> e.row]

Tasks(tr) ==
  LET reqs == Requests(tr)
  IN [i \in 1..Len(reqs) |-> Task(reqs[i])]

RECURSIVE Distinct(_)
\* s without repetitions, in the order of first occurrence
Distinct(s) ==
  IF s = <<>> THEN <<>>
  ELSE LET d == Distinct(SubSeq(s, 1, Len(s) - 1))
       IN IF s[Len(s)] \in Range(d) THEN d ELSE Append(d, s[Len(s)])

\* the rows the requests of the given types are about, in order of first request
RowsOf(tr, types) ==
  LET reqs == Requests(tr)
      about == {i \in 1..Len(reqs) : reqs[i].type \in types}
      rows == [i \in 1..Len(reqs) |-> IF i \in about THEN reqs[i].row ELSE 0]
  IN Distinct(SelectSeqBy(rows, 1, LeaderObjs \cup CompetitorObjs))

OnePerEngine(engines, type, row) ==
  [i \in 1..Len(engines) |-> [type |-> type, llm |-> engines[i], row |-> row]]

LeaderTypes == <<"leadership", "press", "social">>

\* leadership, press, social for the first engine, then for the next one
ThreePerEngine(engines, row) ==
  [k \in 1..(3 * Len(engines)) |->
     [type |-> LeaderTypes[((k - 1) % 3) + 1], llm |-> engines[((k - 1) \div 3) + 1],
      row |-> row]]

RECURSIVE LeaderPhase(_, _)
LeaderPhase(engines, rows) ==
  IF rows = <<>> THEN <<>>
  ELSE ThreePerEngine(engines, Head(rows)) \o LeaderPhase(engines, Tail(rows))

RECURSIVE CompetitorPhase(_, _)
CompetitorPhase(engines, rows) ==
  IF rows = <<>> THEN <<>>
  ELSE OnePerEngine(engines, "competitor", Head(rows)) \o CompetitorPhase(engines, Tail(rows))

\* the order of section 4.1 for the given engines, leader rows and competitor rows
PlanOf(engines, leaderRows, competitorRows) ==
  OnePerEngine(engines, "entity", 0) \o LeaderPhase(engines, leaderRows)
  \o OnePerEngine(engines, "podcast", 0) \o CompetitorPhase(engines, competitorRows)

IsPrefix(s, t) == Len(s) <= Len(t) /\ SubSeq(t, 1, Len(s)) = s

\* rows is a selection of the rows of the brief, in brief order
InBriefOrder(rows, briefRows) ==
  /\ Range(rows) \subseteq Range(briefRows)
  /\ \A i, j \in 1..Len(rows) :
       i < j => \E a, b \in 1..Len(briefRows) :
                  a < b /\ briefRows[a] = rows[i] /\ briefRows[b] = rows[j]

IsRequest(e) == e.ev \in {"analysis", "backlink"}
IsAnswer(e) == e.ev \in {"analysisAnswer", "backlinkAnswer"}

\* C3: at most one gateway request is in flight, and when a gateway request
\* of a run leaves, every earlier gateway request of the run has been answered.
C3_OneRequestInFlight ==
  /\ Cardinality(inflight) <= 1
  /\ \A k \in 1..Len(trace) :
       IsRequest(trace[k]) =>
         Cardinality({i \in 1..(k - 1) : IsRequest(trace[i])})
           = Cardinality({i \in 1..(k - 1) : IsAnswer(trace[i])})

C3_Witness ==
  /\ Cardinality(inflight) = 1
  /\ \E i, j \in 1..Len(trace) : IsBacklink(trace[i]) /\ IsAnalysis(trace[j])
  /\ Len(Requests(trace)) >= 3

\* --------------------------------------------------------------------- C4
RECURSIVE Sum(_)
Sum(s) == IF s = <<>> THEN 0 ELSE Head(s) + Sum(Tail(s))

LeaderEntryCount(l) == Len(l.byLLM) + Len(l.pressOpportunities) + Len(l.socialSentiment)
CompetitorEntryCount(c) == Len(c.byLLM)

\* the number of result entries a Report holds
ResultEntries(report) ==
  Len(report.company)
  + Sum([i \in 1..Len(report.leadership) |-> LeaderEntryCount(report.leadership[i])])
  + Len(report.podcastOpportunities)
  + Sum([i \in 1..Len(report.competitors) |-> CompetitorEntryCount(report.competitors[i])])

InMap(map, llm) == {map[i].results : i \in {j \in 1..Len(map) : map[j].llm = llm}}

\* the results a Report holds in the slot of a task
SlotResults(report, task) ==
  LET leaders == {report.leadership[i] : i \in {j \in 1..Len(report.leadership) :
                                                   report.leadership[j].row = task.row}}
      rivals == {report.competitors[i] : i \in {j \in 1..Len(report.competitors) :
                                                   report.competitors[j].row = task.row}}
  IN CASE task.type = "entity" -> InMap(report.company, task.llm)
       [] task.type = "leadership" -> UNION {InMap(l.byLLM, task.llm) : l \in leaders}
       [] task.type = "press" -> UNION {InMap(l.pressOpportunities, task.llm) : l \in leaders}
       [] task.type = "social" -> UNION {InMap(l.socialSentiment, task.llm) : l \in leaders}
       [] task.type = "podcast" -> InMap(report.podcastOpportunities, task.llm)
       [] OTHER -> UNION {InMap(c.byLLM, task.llm) : c \in rivals}

FailedTasks(tr) ==
  LET answers == AnalysisAnswers(tr)
  IN {i \in 1..Len(answers) : answers[i].failed}

\* C4: once a run in which the analysis request of some task i failed is
\* over, it has completed with a Report; every task of the plan was
\* dispatched and answered, the Report holds one result entry per task, and
\* the entry of task i has error = true.
C4_FailureDoesNotStopRun ==
  (~loading /\ trace # <<>>) =>
    LET failed == FailedTasks(trace)
        tasks == Tasks(trace)
    IN failed # {} =>
         /\ results # Null
         /\ error = "null"
         /\ tasks = PlanOf(startBrief.engines,
                           RowsOf(trace, {"leadership", "press", "social"}),
                           RowsOf(trace, {"competitor"}))
         /\ Len(AnalysisAnswers(trace)) = Len(tasks)
         /\ ResultEntries(results[1]) = Len(tasks)
         /\ \A i \in failed :
              /\ SlotResults(results[1], tasks[i]) # {}
              /\ \A r \in SlotResults(results[1], tasks[i]) : r.error = TRUE

C4_Witness ==
  /\ outcome = "completed"
  /\ results # Null
  /\ Len(Requests(trace)) >= 10
  /\ \E i \in FailedTasks(trace) : i > 1 /\ i < Len(Requests(trace))

\* --------------------------------------------------------------------- C5
IsSentinel(r) ==
  /\ r.error = TRUE
  /\ r.confidenceScore = 0
  /\ r.sentimentScore = 0
  /\ r.sentiment = "unknown"
  /\ r.entityFound = FALSE
  /\ r.recommendations = "Analysis failed"

\* C5 as claimed: the result recorded for a failed request is the sentinel,
\* and a result with error = true is recorded only for a failed request.
C5_SentinelIffFailed ==
  (outcome = "completed" /\ results # Null) =>
    LET answers == AnalysisAnswers(trace)
        tasks == Tasks(trace)
    IN \A i \in 1..Len(answers) :
         LET recorded == SlotResults(results[1], tasks[i])
         IN /\ answers[i].failed => \A r \in recorded : IsSentinel(r)
            /\ \A r \in recorded : r.error = TRUE => answers[i].failed

\* C5 as amended: the result recorded for a failed request is the sentinel,
\* and the result recorded for a request that succeeded is the response
\* body unchanged, with error = true only if the body itself carries it.
C5_SentinelOnFailureBodyOtherwise ==
  (outcome = "completed" /\ results # Null) =>
    LET answers == AnalysisAnswers(trace)
        tasks == Tasks(trace)
    IN \A i \in 1..Len(answers) :
         LET recorded == SlotResults(results[1], tasks[i])
         IN /\ recorded # {}
            /\ answers[i].failed => \A r \in recorded : IsSentinel(r)
            /\ ~answers[i].failed => recorded = {answers[i].body}

C5_Witness ==
  /\ outcome = "completed"
  /\ results # Null
  /\ FailedTasks(trace) # {}
  /\ Len(AnalysisAnswers(trace)) > 1

\* --------------------------------------------------------------------- C6
NoGatewayRequest(tr) == \A i \in 1..Len(tr) : ~IsRequest(tr[i])

\* C6: a run started with no engine selected ends with the one error
\* message, has issued no analysis and no backlink request, publishes no
\* Report and leaves loading false.
C6_NoEngineSelected ==
  (outcome # "none" /\ startBrief.engines = <<>>) =>
    /\ error = "Please select at least one AI search engine"
    /\ NoGatewayRequest(trace)
    /\ inflight = {}
    /\ results = Null
    /\ loading = FALSE

C6_Witness ==
  /\ outcome = "noEngines"
  /\ startBrief.engines = <<>>
  /\ startBrief.companyName # ""
  /\ startBrief.website # ""

\* --------------------------------------------------------------------- C7
\* C7: a click on the Run button while the company name is empty and no
\* run is in flight starts nothing: no analysis and no backlink request is
\* issued, no Report is produced and no run is left in flight.
C7_EmptyCompanyName ==
  [][(formData.companyName = "" /\ ~loading /\ (clickRun \/ clickDisabledRun)) =>
       (/\ inflight' = {}
        /\ NoGatewayRequest(trace')
        /\ results' = Null
        /\ loading' = FALSE
        /\ run' = IdleRun)]_vars

C7_Witness ==
  /\ lastClick = "blocked"
  /\ formData.companyName = ""
  /\ ~loading
  /\ \E id \in ToggleIds : isSelected(selectedLLMs, id)

\* --------------------------------------------------------------------- C8
RequestsBefore(tr, k) == Cardinality({i \in 1..k : IsAnalysis(tr[i])})

\* C8: the i-th analysis request of a run leaves right after the progress
\* event with current = i and the run's total; nothing lies between the two.
C8_ProgressThenDispatch ==
  LET total == PlannedTotal(startBrief)
  IN \A k \in 1..Len(trace) :
       IsAnalysis(trace[k]) =>
         /\ k > 1
         /\ IsProgress(trace[k - 1])
         /\ trace[k - 1].current = RequestsBefore(trace, k)
         /\ trace[k - 1].total = total

C8_Witness ==
  /\ outcome = "completed"
  /\ Len(Requests(trace)) = PlannedTotal(startBrief)
  /\ Len(Requests(trace)) >= 10

\* --------------------------------------------------------------------- C9
\* C9: from one progress event of a run to the next, current does not
\* decrease; whenever no run is in flight the progress state is {0, 0, ''}.
C9_ProgressMonotoneThenReset ==
  /\ LET events == ProgressEvents(trace)
     IN \A i \in 1..(Len(events) - 1) : events[i].current <= events[i + 1].current
  /\ loading = FALSE =>
       (progress.current = 0 /\ progress.total = 0 /\ progress.message = <<>>)

C9_Witness ==
  /\ outcome = "completed"
  /\ loading = FALSE
  /\ Len(ProgressEvents(trace)) >= 10
  /\ \E i \in 1..Len(trace) : IsBacklink(trace[i])

\* -------------------------------------------------------------------- C10
FailedBacklinks(tr) == {i \in 1..Len(tr) : IsBacklinkAnswer(tr[i]) /\ tr[i].failed}

\* C10: once a run in which a backlink request failed is over, it has
\* completed with a Report and every task of the plan was dispatched; a
\* progress event carries as current the number of analysis requests sent
\* before it, plus one exactly when an analysis request follows it, and as
\* total the planned total, so a backlink request adds to neither.
C10_BacklinkFailureTolerated ==
  /\ (~loading /\ trace # <<>>) =>
       (FailedBacklinks(trace) # {} =>
          /\ results # Null
          /\ error = "null"
          /\ Tasks(trace) = PlanOf(startBrief.engines,
                                   RowsOf(trace, {"leadership", "press", "social"}),
                                   RowsOf(trace, {"competitor"})))
  /\ LET total == PlannedTotal(startBrief)
     IN \A k \in 1..Len(trace) :
          IsProgress(trace[k]) =>
            /\ k < Len(trace)
            /\ IsAnalysis(trace[k + 1]) => trace[k].current = RequestsBefore(trace, k) + 1
            /\ IsBacklink(trace[k + 1]) => trace[k].current = RequestsBefore(trace, k)
            /\ trace[k].total = total

C10_Witness ==
  /\ outcome = "completed"
  /\ results # Null
  /\ FailedBacklinks(trace) # {}
  /\ Len(Requests(trace)) >= 4
  /\ \E i \in 1..Len(trace) : IsBacklink(trace[i]) /\ i > 2

\* -------------------------------------------------------------------- C11
\* the answers to the backlink requests made for the entity that the analysis
\* requests of the given type and row are about: the backlink request of an
\* entity is answered right before the entity's first progress event
BacklinkAnswersFor(tr, type, row) ==
  {tr[k] : k \in {i \in 1..(Len(tr) - 2) :
                    /\ IsBacklinkAnswer(tr[i])
                    /\ IsAnalysis(tr[i + 2])
                    /\ tr[i + 2].type = type
                    /\ tr[i + 2].row = row}}

\* the fetch failed, or the provider answered every sub-query with an error
BacklinkFetchFailed(answer) == answer.failed \/ answer.data = "errors-only"

\* C11: in the Report of a completed run the backlink profile of the company,
\* and of every competitor, is null when the entity's website is empty or
\* the backlink fetch for it failed, a fetch in which the data provider
\* answered every sub-query with an error included.
C11_NoProfileWithoutBacklinks ==
  (outcome = "completed" /\ results # Null) =>
    LET report == results[1]
    IN /\ (\/ report.website = ""
           \/ \E a \in BacklinkAnswersFor(trace, "entity", 0) : BacklinkFetchFailed(a))
          => report.semrushData = "null"
       /\ \A i \in 1..Len(report.competitors) :
            LET c == report.competitors[i]
            IN (\/ c.website = ""
                \/ \E a \in BacklinkAnswersFor(trace, "competitor", c.row) :
                      BacklinkFetchFailed(a))
               => c.semrushData = "null"

\* -------------------------------------------------------------------- C12
BacklinkRequests(tr) == SelectSeq(tr, IsBacklink)

\* C12: no two backlink requests of one run ask for the same domain.
C12_OneBacklinkRequestPerDomain ==
  LET requests == BacklinkRequests(trace)
  IN \A i, j \in 1..Len(requests) : i < j => requests[i].query # requests[j].query

\* -------------------------------------------------------------------- C13
\* C13: a run ended by an internal failure leaves the one error message of
\* the catch block, no request in flight and no run to issue another one,
\* loading false, and no Report: results is null.
C13_InternalFailureAborts ==
  outcome = "aborted" =>
    /\ error = "Analysis failed"
    /\ results = Null
    /\ loading = FALSE
    /\ inflight = {}
    /\ run = IdleRun
    /\ trace[Len(trace)] = ResetEvent
    /\ \A k \in 1..Len(trace) : IsRequest(trace[k]) => k < Len(trace)

\* a run aborted after it had stored results of answered tasks
C13_Witness ==
  /\ outcome = "aborted"
  /\ Len(AnalysisAnswers(trace)) >= 3
  /\ \E i \in 1..Len(trace) : IsBacklinkAnswer(trace[i])

\* -------------------------------------------------------------------- C14
\* the sentiments of a map in lower case, in the map's insertion order
LowerSentiments(map) ==
  LET sentiments == sentimentsOf(map)
  IN [i \in 1..Len(sentiments) |-> toLowerCase(sentiments[i])]

FirstMet(s, v) == CHOOSE i \in 1..Len(s) : s[i] = v /\ \A j \in 1..(i - 1) : s[j] # v

\* r is a sentiment of greatest count in s, and of those the one met first
IsMajorityFirstMet(s, r) ==
  LET count(v) == Cardinality({i \in 1..Len(s) : s[i] = v})
  IN /\ \E i \in 1..Len(s) : s[i] = r
     /\ \A i \in 1..Len(s) : count(s[i]) <= count(r)
     /\ \A i \in 1..Len(s) : count(s[i]) = count(r) => FirstMet(s, r) <= i

\* C14: the majority sentiment of a map is a sentiment of greatest
\* case-insensitive count, of several with that count the one met first in
\* the map's insertion order, and the no-sentiment value when the map holds
\* no sentiment.
C14_MajoritySentiment ==
  shown.done =>
    LET s == LowerSentiments(byLLM)
    IN IF s = <<>>
       THEN shown.sentiment = "N/A" /\ shown.emailSentiment = "Unknown"
       ELSE /\ IsMajorityFirstMet(s, shown.sentiment)
            /\ IsMajorityFirstMet(s, shown.emailSentiment)

\* -------------------------------------------------------------------- C15
\* confidenceScore, or sentimentScore when confidenceScore is absent
ClaimedValue(r) ==
  IF r.confidenceScore # Absent THEN r.confidenceScore[1]
  ELSE IF r.sentimentScore # Absent THEN r.sentimentScore[1]
  ELSE 0

\* tenths is sum / count to one decimal: no tenth is nearer to the mean
IsMeanToOneDecimal(tenths, sum, count) ==
  /\ 2 * (tenths * count - 10 * sum) <= count
  /\ 2 * (10 * sum - tenths * count) <= count

IsClaimedAverage(map, tenths) ==
  LET qualifying == {i \in 1..Len(map) : ~map[i].error /\ ClaimedValue(map[i]) > 0}
      values == [i \in 1..Len(map) |-> IF i \in qualifying THEN ClaimedValue(map[i]) ELSE 0]
  IN IF qualifying = {} THEN tenths = 0
     ELSE IsMeanToOneDecimal(tenths, SumSeq(values), Cardinality(qualifying))

\* C15: the average score of a map is the mean, to one decimal, of the
\* values (confidenceScore, or sentimentScore when confidenceScore is absent)
\* of the entries that have no error and a value above 0, and 0 when there
\* is no such entry.
C15_AverageScore ==
  shown.done =>
    /\ IsClaimedAverage(byLLM, shown.score)
    /\ IsClaimedAverage(byLLM, shown.emailScore)

\* -------------------------------------------------------------------- C16
\* what identifies an analysis request: query, engine name, analysis type
RequestSent(e) == [query |-> e.query, llmName |-> llmName(e.llm), analysisType |-> e.type]

RequestsSent(tr) ==
  LET reqs == Requests(tr)
  IN [i \in 1..Len(reqs) |-> RequestSent(reqs[i])]

PerEngine(engines, query, analysisType) ==
  [i \in 1..Len(engines) |->
     [query |-> query, llmName |-> llmName(engines[i]), analysisType |-> analysisType]]

\* leadership, press, social of one leader for the first engine, then the next
LeaderRequests(engines, name, companyName) ==
  [k \in 1..(3 * Len(engines)) |->
     LET type == LeaderTypes[((k - 1) % 3) + 1]
     IN [query |-> <<type, name, companyName>>,
         llmName |-> llmName(engines[((k - 1) \div 3) + 1]),
         analysisType |-> type]]

RECURSIVE AllLeaderRequests(_, _, _)
AllLeaderRequests(engines, names, companyName) ==
  IF names = <<>> THEN <<>>
  ELSE (IF Head(names) = "" THEN <<>> ELSE LeaderRequests(engines, Head(names), companyName))
       \o AllLeaderRequests(engines, Tail(names), companyName)

RECURSIVE AllCompetitorRequests(_, _)
AllCompetitorRequests(engines, rivals) ==
  IF rivals = <<>> THEN <<>>
  ELSE (IF Head(rivals).name = "" THEN <<>>
        ELSE PerEngine(engines, <<"competitor", Head(rivals).name, Head(rivals).website>>,
                       "competitor"))
       \o AllCompetitorRequests(engines, Tail(rivals))

\* the requests a brief and an engine selection determine
RequestsOfBrief(b) ==
  PerEngine(b.engines, <<"entity", b.companyName, b.website>>, "entity")
  \o AllLeaderRequests(b.engines, b.leaders, b.companyName)
  \o PerEngine(b.engines, <<"podcast", b.companyName>>, "podcast")
  \o AllCompetitorRequests(b.engines, b.competitors)

\* C16: the analysis requests of a run and the total it announces are
\* determined by the brief and the engine selection the run was started
\* with, so two runs started from the same brief and selection dispatch the
\* same requests in the same order and announce the same total, whatever
\* the gateway answered.
C16_SameBriefSameRequests ==
  outcome \in {"running", "completed"} =>
    LET sent == RequestsSent(trace)
        determined == RequestsOfBrief(startBrief)
    IN /\ IsPrefix(sent, determined)
       /\ outcome = "completed" => sent = determined
       /\ \A i \in 1..Len(trace) :
            IsProgress(trace[i]) => trace[i].total = PlannedTotal(startBrief)

\* -------------------------------------------------------------------- C17
\* the provider's text could not be decoded: api/analyze.js marks the body
DecodeFailed(answer) == ~answer.failed /\ answer.body.parseError

\* C17: in a completed run the result recorded for a task whose provider
\* answer could not be decoded as a JSON object is the sentinel of a network
\* failure: error = true, scores 0, sentiment 'unknown'.
C17_DecodeFailureIsSentinel ==
  (outcome = "completed" /\ results # Null) =>
    LET answers == AnalysisAnswers(trace)
        tasks == Tasks(trace)
    IN \A i \in 1..Len(answers) :
         DecodeFailed(answers[i]) =>
           /\ SlotResults(results[1], tasks[i]) # {}
           /\ \A r \in SlotResults(results[1], tasks[i]) : IsSentinel(r)

\* -------------------------------------------------------------------- C18
\* an error marker or a zero score, and no positive score
MarksError(card) ==
  /\ card.marker \/ card.score = <<0>>
  /\ card.score = Absent \/ card.score[1] = 0

\* C18: for a result with error = true, each place of the UI and of the PDF
\* that renders the result shows an error marker or a zero score, never a
\* positive score.
C18_ErrorNeverShownAsScore ==
  shown.done =>
    \A i \in 1..Len(byLLM) :
      byLLM[i].error =>
        /\ MarksError(shown.cards[i].overview)
        /\ MarksError(shown.cards[i].company)
        /\ MarksError(shown.cards[i].leader)
        /\ MarksError(shown.cards[i].pdfLeader)

\* -------------------------------------------------------------------- C19
NonEmpty(name) == name # ""

NamesOf(entries) == [i \in 1..Len(entries) |-> entries[i].name]

\* C19: the Report of a completed run lists exactly the leaders of the brief
\* with a non-empty name, in brief order, and exactly the competitors with a
\* non-empty name, in brief order; no request of the run is about a leader
\* or a competitor with an empty name.
C19_NamedRowsOnly ==
  /\ (outcome = "completed" /\ results # Null) =>
       /\ NamesOf(results[1].leadership) = SelectSeq(startBrief.leaders, NonEmpty)
       /\ NamesOf(results[1].competitors)
            = SelectSeq(NamesOf(startBrief.competitors), NonEmpty)
  /\ \A k \in 1..Len(trace) :
       (IsAnalysis(trace[k]) /\ trace[k].row # 0) => trace[k].query[2] # ""

\* -------------------------------------------------------------------- C20
RunEnded == loading = FALSE /\ (results # Null \/ error # "null")

\* C20: when every gateway request eventually returns or fails, a run in
\* flight eventually ends: loading is false and a Report is published or an
\* error message is set.
C20_RunEnds == loading ~> RunEnded

C20_Witness ==
  /\ RunEnded
  /\ outcome \in {"completed", "aborted"}
  /\ trace # <<>>
  /\ trace[Len(trace)] = ResetEvent
  /\ Len(AnalysisAnswers(trace)) >= 6

\* -------------------------------------------------------------------- C21
\* local@domain.tld without whitespace: no blank, one at sign with something
\* before it, and after it a dot with something on either side
HasEmailShape(s) ==
  LET ats == {i \in 1..Len(s) : s[i] = "@"}
  IN /\ \A i \in 1..Len(s) : s[i] # " "
     /\ Cardinality(ats) = 1
     /\ \E at \in ats :
          /\ at > 1
          /\ \E dot \in (at + 2)..(Len(s) - 1) : s[dot] = "."

\* all that a delivery request needs for the report to be sent
Deliverable(req) ==
  /\ req.recipientName # ""
  /\ req.recipientCompany # ""
  /\ req.recipientEmail # <<>>
  /\ HasEmailShape(req.recipientEmail)
  /\ req.reportData # <<>>

\* C21: the handler generates a PDF or sends the report e-mail only for a
\* request with recipient name, recipient company and recipient e-mail
\* non-empty, the e-mail of the shape local@domain.tld without whitespace,
\* and report data present; a POST without one of these is answered 400
\* with no PDF generated and no e-mail sent, and the component posts such a
\* request in no case.
C21_SendOnlyValidated ==
  /\ \A i \in 1..Len(delivery.last) :
       LET req == delivery.last[i].request
           did == delivery.last[i].did
       IN /\ (did.sent \/ did.pdf) => (req.method = "POST" /\ Deliverable(req))
          /\ (req.method = "POST" /\ ~Deliverable(req)) =>
               (did.status = 400 /\ ~did.pdf /\ ~did.sent)
  /\ \A i \in 1..Len(delivery.pending) : Deliverable(delivery.pending[i])

\* the report of the component has been sent
C21_Witness ==
  /\ delivery.last # <<>>
  /\ delivery.last[1].request.origin = "component"
  /\ delivery.last[1].did.sent
  /\ mail.emailStatus = "success"

\* -------------------------------------------------------------------- C22
\* what analyzeQuery returned for an answer
ResultOf(answer) == IF answer.failed THEN Sentinel ELSE answer.body

KeysOf(map) == [i \in 1..Len(map) |-> map[i].llm]

RowsIn(entries) == [i \in 1..Len(entries) |-> entries[i].row]

\* C22: in the Report of a completed run the slot of every task holds the
\* result of that task's request and nothing else: the company map is keyed
\* by the engines, leadership[k] is the entry of the k-th leader asked about
\* and its three maps are keyed by the engines, podcastOpportunities lists
\* the engines in engine order, competitors[j] is the entry of the j-th
\* competitor asked about; the Report holds as many results as there were
\* tasks and no two tasks share a slot.
C22_ResultsInOwnSlots ==
  (outcome = "completed" /\ results # Null) =>
    LET report == results[1]
        answers == AnalysisAnswers(trace)
        tasks == Tasks(trace)
        engines == startBrief.engines
    IN /\ Len(answers) = Len(tasks)
       /\ Cardinality(Range(tasks)) = Len(tasks)
       /\ ResultEntries(report) = Len(tasks)
       /\ \A i \in 1..Len(tasks) :
            SlotResults(report, tasks[i]) = {ResultOf(answers[i])}
       /\ KeysOf(report.company) = engines
       /\ KeysOf(report.podcastOpportunities) = engines
       /\ RowsIn(report.leadership) = RowsOf(trace, {"leadership", "press", "social"})
       /\ RowsIn(report.competitors) = RowsOf(trace, {"competitor"})
       /\ \A k \in 1..Len(report.leadership) :
            /\ KeysOf(report.leadership[k].byLLM) = engines
            /\ KeysOf(report.leadership[k].pressOpportunities) = engines
            /\ KeysOf(report.leadership[k].socialSentiment) = engines
       /\ \A j \in 1..Len(report.competitors) :
            KeysOf(report.competitors[j].byLLM) = engines

\* a completed run over two engines, leaders and a competitor in which the
\* results differ from slot to slot
C22_Witness ==
  /\ outcome = "completed"
  /\ results # Null
  /\ Len(startBrief.engines) = 2
  /\ Len(results[1].leadership) >= 1
  /\ Len(results[1].competitors) >= 1
  /\ \E i \in 1..Len(AnalysisAnswers(trace)) :
       i > 2 /\ ResultOf(AnalysisAnswers(trace)[i]) # NormalBody

\* -------------------------------------------------------------------- C23
\* a step of the run between its start and its end: the run stays in flight
\* and its history grows
RunStep == loading /\ loading' /\ trace' # trace

Ended == ~loading /\ outcome \in {"completed", "aborted", "noEngines"}

\* C24: when a run has ended, either a Report is published and there is no
\* error message, or there is an error message and no Report; never both
\* and never neither.
C24_ReportOrError ==
  Ended =>
    \/ results # Null /\ error = "null"
    \/ results = Null /\ error # "null"

\* a run that had gathered results ended with an error message and no Report
C24_Witness ==
  /\ Ended
  /\ error # "null"
  /\ results = Null
  /\ Len(ProgressEvents(trace)) >= 4

\* -------------------------------------------------------------------- C25
\* C25: in every state 0 <= progress.current <= progress.total, every
\* progress event of a run has its current within 0..total, and the last
\* progress event of a completed run has current = total.
C25_ProgressWithinTotal ==
  /\ 0 <= progress.current
  /\ progress.current <= progress.total
  /\ LET events == ProgressEvents(trace)
     IN /\ \A i \in 1..Len(events) :
             0 <= events[i].current /\ events[i].current <= events[i].total
        /\ outcome = "completed" =>
             /\ events # <<>>
             /\ events[Len(events)].current = events[Len(events)].total

\* -------------------------------------------------------------------- C26
\* C26: while a run is in flight no run is started: the brief the run was
\* started with stays the one recorded, the history of the run only grows,
\* and the engines and the total of the run stay what they were, so the
\* requests and progress events recorded are those of one run.
C26_RunsNeverOverlap ==
  [][loading =>
       /\ startBrief' = startBrief
       /\ IsPrefix(trace, trace')
       /\ loading' => (/\ run'.llmList = run.llmList
                       /\ run'.totalQueries = run.totalQueries
                       /\ run'.currentQuery >= run.currentQuery)]_vars

\* the operator has clicked the Run button while a run with a request
\* outstanding was in flight, and nothing was started
C26_Witness ==
  /\ loading
  /\ lastClick = "blocked"
  /\ formData.companyName # ""
  /\ inflight # {}
  /\ Len(Requests(trace)) >= 2

\* -------------------------------------------------------------------- C27
\* the rows of the brief whose name was not empty when the run started
NamedRows(rows, names) ==
  SelectSeqBy(rows, 1, {rows[i] : i \in {j \in 1..Len(rows) : names[j] # ""}})

\* the name a row of the brief had when the run started
NameAtStart(b, type, row) ==
  IF type = "competitor"
  THEN {b.competitors[i].name : i \in {j \in 1..Len(b.competitorRows) : b.competitorRows[j] = row}}
  ELSE {b.leaders[i] : i \in {j \in 1..Len(b.leaderRows) : b.leaderRows[j] = row}}

\* C27: whatever the operator edits while a run is in flight, the tasks the
\* run dispatches are those of the brief as it was when the run started:
\* the plan over the rows named then, each request about a row carrying the
\* name the row had then, and the total of the run the planned total of
\* that brief.
C27_EditsDoNotReachRun ==
  outcome \in {"running", "completed"} =>
    LET b == startBrief
        plan == PlanOf(b.engines, NamedRows(b.leaderRows, b.leaders),
                       NamedRows(b.competitorRows, NamesOf(b.competitors)))
        reqs == Requests(trace)
        tasks == [i \in 1..Len(reqs) |-> Task(reqs[i])]
    IN /\ IsPrefix(tasks, plan)
       /\ outcome = "completed" => tasks = plan
       /\ \A i \in 1..Len(reqs) :
            reqs[i].row # 0 => NameAtStart(b, reqs[i].type, reqs[i].row) = {reqs[i].query[2]}
       /\ loading => run.totalQueries = PlannedTotal(b)

\* -------------------------------------------------------------------- C28
\* C28: for every map of company results the overall score the UI shows and
\* the overall score of the PDF and the e-mail body are equal.
C28_SameScoreInUIAndEmail ==
  shown.done => shown.score = shown.emailScore

\* -------------------------------------------------------------------- C29
\* the registry restricted to the given ids, in registry order
InRegistryOrder(ids) == SelectSeqBy(llmOptions, 1, ids)

\* C29: whatever the operator has toggled, every id of the selection is an
\* id of the registry, the engine list a run would start with is the
\* registry order chatgpt, gemini, claude, perplexity, copilot restricted to
\* the selected ids, and so is the engine list of the run in flight and of
\* the run recorded.
C29_RegistryOrder ==
  /\ \A i \in 1..Len(selectedLLMs) : selectedLLMs[i].id \in Range(llmOptions)
  /\ selectedLLMList
       = InRegistryOrder({id \in Range(llmOptions) : isSelected(selectedLLMs, id)})
  /\ loading => run.llmList = InRegistryOrder(Range(run.llmList))
  /\ startBrief.engines = InRegistryOrder(Range(startBrief.engines))

\* a run over gemini alone is in flight; chatgpt was deselected before it
\* started and has been selected again, after gemini, since
C29_Witness ==
  /\ loading
  /\ run.llmList = <<"gemini">>
  /\ selectedLLMList = <<"chatgpt", "gemini">>
  /\ Len(Requests(trace)) >= 2

\* -------------------------------------------------------------------- C30
SomeApiTestFailed(checks) == \E i \in 1..Len(checks) : checks[i].apiTest = "FAIL"

\* C30: the diagnostics endpoint answers with the summary 'All configured
\* services are working' only if no check recorded apiTest = 'FAIL'; when
\* some check did, the summary is 'Some services need attention'.
C30_SummaryReflectsApiTests ==
  diagnosis.pc = "answered" =>
    /\ diagnosis.summary = "All configured services are working"
         => ~SomeApiTestFailed(diagnosis.checks)
    /\ SomeApiTestFailed(diagnosis.checks)
         => diagnosis.summary = "Some services need attention"

====
